---- MODULE Spec2Model ----
(***************************************************************************)
(* FactMesh: claim-to-cell resolution, the verification graph builder and  *)
(* the cross-table consistency check (src/factmesh/graph.py), the batched  *)
(* alternate resolver (src/factmesh/resolver.py) and the command line      *)
(* entry point (src/factmesh/__main__.py).                                 *)
(*                                                                         *)
(* Python strings that the code inspects character by character (labels,   *)
(* numeric literals, identifiers, node ids) are sequences of one-character *)
(* strings, so that lower(), strip(), replace(), slicing, substring tests  *)
(* and float() are computed and not assumed.  Ordered dicts are sequences  *)
(* of key/value records in insertion order.                                *)
(***************************************************************************)
EXTENDS Integers, Sequences, FiniteSets, TLC

VARIABLES
    pc,               \* position of the run (main, build_graph, resolve_claims_batch)
    error,            \* why the run stopped early, "none" while it has not
    use_llm,          \* args.llm
    api_key_set,      \* whether --api-key or OPENAI_API_KEY supplies a key
    claims,           \* json.load(claims_path)
    tables,           \* the tables dict, in insertion (sorted file) order
    graph,            \* the ConsistencyGraph under construction
    batch_size,       \* resolve_claims_batch's batch_size
    batch_start,      \* loop variable of resolve_claims_batch (0-based)
    all_resolutions,  \* resolve_claims_batch's accumulator
    batch_log,        \* history: per batch attempted, its start and whether its call failed
    llm_resolutions,  \* build_graph's llm_resolutions, as the list it is filled from
    ci,               \* 1-based index of the claim being processed (claim_<ci-1>)
    vi,               \* 1-based index of the next value mention of that claim
    written,          \* the output files written by main
    call,             \* arguments of a direct call of _find_value_in_table
    ret,              \* its return value; beside the workers, the single-threaded graph
    workers           \* concurrent resolution: each worker's graph writes and how many it has made

vars == <<pc, error, use_llm, api_key_set, claims, tables, graph, batch_size, batch_start,
          all_resolutions, batch_log, llm_resolutions, ci, vi, written, call, ret, workers>>

-----------------------------------------------------------------------------
(* Strings *)

\* Python's None where a str is expected; str(None) is "None".
NoneStr == <<"<None>">>

Fmt(s) == IF s = NoneStr THEN <<"N","o","n","e">> ELSE s

UpperChars == <<"A","B","C","D","E","F","G","H","I","J","K","L","M","N","O","P","Q","R","S","T","U","V","W","X","Y","Z">>
LowerChars == <<"a","b","c","d","e","f","g","h","i","j","k","l","m","n","o","p","q","r","s","t","u","v","w","x","y","z">>
Digits == <<"0","1","2","3","4","5","6","7","8","9">>

IsDigit(c) == \E i \in 1..Len(Digits) : Digits[i] = c

DigitVal(c) == (CHOOSE i \in 1..Len(Digits) : Digits[i] = c) - 1

LowerChar(c) ==
    IF \E i \in 1..Len(UpperChars) : UpperChars[i] = c
    THEN LowerChars[CHOOSE i \in 1..Len(UpperChars) : UpperChars[i] = c]
    ELSE c

\* str.lower()
Lower(s) == [i \in 1..Len(s) |-> LowerChar(s[i])]

\* str.replace(old, new) for a one-character old and a new of any length
RECURSIVE ReplaceChar(_, _, _)
ReplaceChar(s, old, new) ==
    IF s = <<>> THEN <<>>
    ELSE (IF Head(s) = old THEN new ELSE <<Head(s)>>) \o ReplaceChar(Tail(s), old, new)

\* s[:n]
Prefix(s, n) == SubSeq(s, 1, IF Len(s) < n THEN Len(s) ELSE n)

StartsWith(s, p) == Len(p) <= Len(s) /\ SubSeq(s, 1, Len(p)) = p

EndsWith(s, p) == Len(p) <= Len(s) /\ SubSeq(s, Len(s) - Len(p) + 1, Len(s)) = p

\* sub in s
Contains(sub, s) ==
    \E i \in 0..(Len(s) - Len(sub)) : SubSeq(s, i + 1, i + Len(sub)) = sub

\* str.replace(old, new) for a substring old, leftmost first
RECURSIVE ReplaceStr(_, _, _)
ReplaceStr(s, old, new) ==
    IF Len(s) < Len(old) \/ old = <<>> THEN s
    ELSE IF StartsWith(s, old)
         THEN new \o ReplaceStr(SubSeq(s, Len(old) + 1, Len(s)), old, new)
         ELSE <<Head(s)>> \o ReplaceStr(Tail(s), old, new)

\* str.strip(): leading and trailing whitespace removed
RECURSIVE LStrip(_)
LStrip(s) == IF s # <<>> /\ Head(s) = " " THEN LStrip(Tail(s)) ELSE s

RECURSIVE RStrip(_)
RStrip(s) ==
    IF s # <<>> /\ s[Len(s)] = " " THEN RStrip(SubSeq(s, 1, Len(s) - 1)) ELSE s

Strip(s) == RStrip(LStrip(s))

\* str(i) for a natural number i
RECURSIVE NatStr(_)
NatStr(i) ==
    IF i < 10 THEN <<Digits[i + 1]>> ELSE NatStr(i \div 10) \o <<Digits[(i % 10) + 1]>>

\* re.split(r'[_\s]+', s): the maximal runs between separators (empty runs at
\* the ends included, as re.split yields them)
RECURSIVE SplitWords(_, _)
SplitWords(s, cur) ==
    IF s = <<>> THEN <<cur>>
    ELSE IF Head(s) \in {"_", " "}
         THEN IF Len(s) > 1 /\ s[2] \in {"_", " "}
              THEN SplitWords(Tail(s), cur)
              ELSE <<cur>> \o SplitWords(Tail(s), <<>>)
         ELSE SplitWords(Tail(s), Append(cur, Head(s)))

\* [x for x in seq if P(x)]
RECURSIVE SelectWords(_, _)
SelectWords(seq, minLen) ==
    IF seq = <<>> THEN <<>>
    ELSE (IF Len(Head(seq)) > minLen THEN <<Head(seq)>> ELSE <<>>)
         \o SelectWords(Tail(seq), minLen)

\* e bound to a name within F: a local variable assigned once
With(e, F(_)) == F(e)

\* the least index of a set of indices, or 0 when it is empty: the first hit of a loop
First(hits) == IF hits = {} THEN 0 ELSE CHOOSE i \in hits : \A j \in hits : i <= j

-----------------------------------------------------------------------------
(* Number utilities *)

\* A float is held as an integer number of thousandths; the literals of the
\* model have at most three fractional digits.  Optional floats are <<>>
\* (None) or <<v>>.
RECURSIVE DigitsVal(_)
DigitsVal(ds) ==
    IF ds = <<>> THEN 0 ELSE DigitsVal(SubSeq(ds, 1, Len(ds) - 1)) * 10 + DigitVal(ds[Len(ds)])

\* the first three fractional digits, as thousandths
FracVal(ds) == DigitsVal(Prefix(ds \o <<"0","0","0">>, 3))

\* the literal without its sign
Unsigned(s) == IF s # <<>> /\ Head(s) \in {"-", "+"} THEN Tail(s) ELSE s

\* position of the first ".", or one past the end
DotAt(body) ==
    With(First({i \in 1..Len(body) : body[i] = "."}),
         LAMBDA d : IF d = 0 THEN Len(body) + 1 ELSE d)

\* digits [. digits] or . digits, with at least one digit
ParseBody(body, dot, negative) ==
    IF /\ \A i \in 1..Len(body) : i = dot \/ IsDigit(body[i])
       /\ Len(body) > (IF dot <= Len(body) THEN 1 ELSE 0)
    THEN With(DigitsVal(SubSeq(body, 1, dot - 1)) * 1000
                  + FracVal(SubSeq(body, dot + 1, Len(body))),
              LAMBDA mag : IF negative THEN <<0 - mag>> ELSE <<mag>>)
    ELSE <<>>

\* float("inf"), float("nan"): values beyond every finite literal of the model
Infinity == 1000000000

NaN == 2000000000

\* the literals float() reads as infinity or as not-a-number, in any case and
\* with any sign
SpecialFloat(body, negative) ==
    IF Lower(body) = <<"n","a","n">> THEN <<NaN>>
    ELSE IF Lower(body) \in {<<"i","n","f">>, <<"i","n","f","i","n","i","t","y">>}
         THEN (IF negative THEN <<0 - Infinity>> ELSE <<Infinity>>)
    ELSE <<>>

\* float(s) on [sign] digits [. digits], [sign] . digits, [sign] inf, [sign]
\* infinity and [sign] nan; anything else raises ValueError, reported here as
\* <<>>.  (Exponent forms and digit-group underscores are not among the
\* literals of the model.)
ParseFloat(s) ==
    With(Unsigned(s),
         LAMBDA body :
            ParseBody(body, DotAt(body), s # <<>> /\ Head(s) = "-")
            \o SpecialFloat(body, s # <<>> /\ Head(s) = "-"))

\* the em dash, U+2014
EmDash == "U+2014"

MissingTokens == {<<>>, <<".",".",".">>, <<EmDash>>, <<"n",".","a",".">>, <<"n","/","a">>}

\* .replace(",", "").replace("%", "").replace(" ", "")
Unformatted(s) == ReplaceChar(ReplaceChar(ReplaceChar(s, ",", <<>>), "%", <<>>), " ", <<>>)

\* "(x)" becomes "-x"
Unparenthesized(s) ==
    IF StartsWith(s, <<"(">>) /\ EndsWith(s, <<")">>)
    THEN <<"-">> \o SubSeq(s, 2, Len(s) - 1)
    ELSE s

\* <<>> for None, else <<value in thousandths>>
normalize_number(s) ==
    IF s = <<>> \/ Strip(s) \in MissingTokens THEN <<>>
    ELSE ParseFloat(Unparenthesized(Unformatted(Strip(s))))

\* the default tolerance 0.15, in thousandths
Tolerance == 150

Abs(x) == IF x < 0 THEN 0 - x ELSE x

\* Binary floating point.  float() gives the double nearest to the decimal
\* literal, the subtraction gives the double nearest to the exact difference,
\* and "<=" compares doubles.  For the literals of the model (at most three
\* fractional digits, magnitude below 1000) the rounding errors are far
\* smaller than one thousandth, so the outcome differs from the comparison of
\* the decimal values only when these differ by exactly the tolerance; there
\* the rounding errors decide, and they are computed exactly below.

RECURSIVE Pow2(_)
Pow2(k) == IF k = 0 THEN 1 ELSE 2 * Pow2(k - 1)

RECURSIVE Pow2Mod(_, _)
Pow2Mod(k, m) == IF k = 0 THEN 1 % m ELSE (2 * Pow2Mod(k - 1, m)) % m

\* the binary exponent e of n thousandths, n > 0: 2^e <= n/1000 < 2^(e+1)
Exponent(n) ==
    CHOOSE e \in -10..10 :
        /\ IF e >= 0 THEN 1000 * Pow2(e) <= n ELSE 1000 <= n * Pow2(0 - e)
        /\ IF e + 1 >= 0 THEN n < 1000 * Pow2(e + 1) ELSE n * Pow2(0 - (e + 1)) < 1000

\* n/1000 in units of the last place is n * 2^(49-e) / 125: its remainder mod m
UlpRemainder(n, e, m) == ((n % m) * Pow2Mod(49 - e, m)) % m

\* round to nearest (no ties: 125 is odd), the error in units of 2^-63 / 125
ErrorOf(q, e) == (IF q <= 62 THEN 0 - q ELSE 125 - q) * Pow2(e + 11)

\* double(n/1000) - n/1000, in units of 2^-63 / 125
RoundingError(n) ==
    IF n = 0 THEN 0
    ELSE IF n < 0 THEN 0 - ErrorOf(UlpRemainder(0 - n, Exponent(0 - n), 125), Exponent(0 - n))
    ELSE ErrorOf(UlpRemainder(n, Exponent(n), 125), Exponent(n))

\* whether the last bit of the mantissa of double(n/1000) is set, n > 0
OddAfterRounding(q, q250) == (((q250 - q) % 250) \div 125 = 1) # (q > 62)

MantissaOdd(n) ==
    OddAfterRounding(UlpRemainder(n, Exponent(n), 125), UlpRemainder(n, Exponent(n), 250))

\* half a unit of the last place of double(tolerance), in units of 2^-63 / 125
HalfUlp(tolerance) == 125 * Pow2(Exponent(tolerance) + 10)

\* abs(hi - lo) <= tolerance for hi - lo = tolerance > 0 in decimal: the rounded
\* difference is at most double(tolerance) when the exact difference of the two
\* doubles lies below the midpoint to the next double (at the midpoint, when
\* the tie goes down, to an even mantissa)
AtBoundary(gap, tolerance) ==
    \/ gap < HalfUlp(tolerance)
    \/ gap = HalfUlp(tolerance) /\ ~MantissaOdd(tolerance)

\* abs(x - y) <= tolerance on two finite doubles, d the decimal difference
\* CloseFinite with equal numbers excluded
CloseFiniteDistinct(x, y, d, tolerance) == d # 0 /\ d <= tolerance

CloseFinite(x, y, d, tolerance) ==
    IF d # tolerance THEN d < tolerance
    ELSE IF tolerance = 0 THEN TRUE
    ELSE AtBoundary(RoundingError(IF x > y THEN x ELSE y)
                    - RoundingError(IF x > y THEN y ELSE x) - RoundingError(tolerance),
                    tolerance)

\* abs(x - y) <= tolerance: false when the difference is nan or infinite
\* Close on the signed difference, without abs()
CloseSigned(x, y, tolerance) ==
    /\ x # NaN /\ y # NaN
    /\ Abs(x) # Infinity /\ Abs(y) # Infinity
    /\ x - y <= tolerance

Close(x, y, tolerance) ==
    /\ x # NaN /\ y # NaN
    /\ Abs(x) # Infinity /\ Abs(y) # Infinity
    /\ CloseFinite(x, y, Abs(x - y), tolerance)

\* the test on the two parsed values
\* WithinTolerance with two None results taken as equal
WithinToleranceNoneEqual(na, nb, tolerance) ==
    IF na = <<>> \/ nb = <<>> THEN na = nb ELSE Close(na[1], nb[1], tolerance)

WithinTolerance(na, nb, tolerance) ==
    IF na = <<>> \/ nb = <<>> THEN FALSE ELSE Close(na[1], nb[1], tolerance)

\* _numbers_match(a, b, tolerance)
numbers_match_within(a, b, tolerance) ==
    WithinTolerance(normalize_number(a), normalize_number(b), tolerance)

\* _numbers_match(a, b): the default tolerance, as every call in the program
numbers_match(a, b) == numbers_match_within(a, b, Tolerance)

-----------------------------------------------------------------------------
(* Deterministic cell lookup *)

\* extract_year_from_col with re.search: the first four digits anywhere in the label
extract_year_anywhere(col) ==
    With(First({i \in 1..Len(col) : i + 3 <= Len(col) /\ \A j \in i..(i + 3) : IsDigit(col[j])}),
         LAMBDA i : IF i = 0 THEN NoneStr ELSE SubSeq(col, i, i + 3))

\* re.match(r'(\d{4})', str(col)): the leading four digits, or None
extract_year_from_col(col) ==
    IF Len(col) >= 4 /\ \A i \in 1..4 : IsDigit(col[i]) THEN SubSeq(col, 1, 4) ELSE NoneStr

keyword_map == <<
    [key |-> <<"r","e","a","l","_","g","d","p">>, keywords |-> <<<<"r","e","a","l"," ","g","d","p">>, <<"g","d","p"," ","g","r","o","w","t","h">>, <<"g","d","p",","," ","r","e","a","l">>, <<"r","e","a","l"," ","g","r","o","s","s"," ","d","o","m","e","s","t","i","c">>>>],
    [key |-> <<"i","n","f","l","a","t","i","o","n">>, keywords |-> <<<<"i","n","f","l","a","t","i","o","n">>, <<"c","o","n","s","u","m","e","r"," ","p","r","i","c","e">>, <<"c","p","i">>, <<"p","r","i","c","e"," ","i","n","d","e","x">>>>],
    [key |-> <<"f","i","s","c","a","l">>, keywords |-> <<<<"f","i","s","c","a","l">>, <<"o","v","e","r","a","l","l"," ","b","a","l","a","n","c","e">>, <<"p","r","i","m","a","r","y"," ","b","a","l","a","n","c","e">>, <<"b","u","d","g","e","t">>>>],
    [key |-> <<"c","u","r","r","e","n","t","_","a","c","c","o","u","n","t">>, keywords |-> <<<<"c","u","r","r","e","n","t"," ","a","c","c","o","u","n","t">>, <<"e","x","t","e","r","n","a","l"," ","c","u","r","r","e","n","t">>>>],
    [key |-> <<"d","e","b","t">>, keywords |-> <<<<"d","e","b","t">>, <<"g","r","o","s","s"," ","d","e","b","t">>, <<"p","u","b","l","i","c"," ","d","e","b","t">>, <<"g","o","v","e","r","n","m","e","n","t"," ","d","e","b","t">>>>],
    [key |-> <<"r","e","v","e","n","u","e">>, keywords |-> <<<<"r","e","v","e","n","u","e">>, <<"t","o","t","a","l"," ","r","e","v","e","n","u","e">>, <<"g","o","v","e","r","n","m","e","n","t"," ","r","e","v","e","n","u","e">>>>],
    [key |-> <<"e","x","p","e","n","d","i","t","u","r","e">>, keywords |-> <<<<"e","x","p","e","n","d","i","t","u","r","e">>, <<"t","o","t","a","l"," ","e","x","p","e","n","d","i","t","u","r","e">>, <<"g","o","v","e","r","n","m","e","n","t"," ","s","p","e","n","d","i","n","g">>>>],
    [key |-> <<"r","e","s","e","r","v","e","s">>, keywords |-> <<<<"r","e","s","e","r","v","e","s">>, <<"i","n","t","e","r","n","a","t","i","o","n","a","l"," ","r","e","s","e","r","v","e","s">>, <<"g","r","o","s","s"," ","r","e","s","e","r","v","e","s">>>>],
    [key |-> <<"e","x","c","h","a","n","g","e">>, keywords |-> <<<<"e","x","c","h","a","n","g","e"," ","r","a","t","e">>, <<"n","o","m","i","n","a","l"," ","e","x","c","h","a","n","g","e">>, <<"r","e","a","l"," ","e","x","c","h","a","n","g","e">>, <<"n","e","e","r">>, <<"r","e","e","r">>>>],
    [key |-> <<"i","n","t","e","r","e","s","t">>, keywords |-> <<<<"i","n","t","e","r","e","s","t"," ","r","a","t","e">>, <<"p","o","l","i","c","y"," ","r","a","t","e">>, <<"m","o","n","e","t","a","r","y"," ","p","o","l","i","c","y">>>>],
    [key |-> <<"u","n","e","m","p","l","o","y","m","e","n","t">>, keywords |-> <<<<"u","n","e","m","p","l","o","y","m","e","n","t">>, <<"e","m","p","l","o","y","m","e","n","t">>>>],
    [key |-> <<"e","x","p","o","r","t","s">>, keywords |-> <<<<"e","x","p","o","r","t","s">>, <<"t","o","t","a","l"," ","e","x","p","o","r","t","s">>>>],
    [key |-> <<"i","m","p","o","r","t","s">>, keywords |-> <<<<"i","m","p","o","r","t","s">>, <<"t","o","t","a","l"," ","i","m","p","o","r","t","s">>>>],
    [key |-> <<"m","o","n","e","y">>, keywords |-> <<<<"m","o","n","e","y"," ","s","u","p","p","l","y">>, <<"b","r","o","a","d"," ","m","o","n","e","y">>, <<"m","2">>, <<"m","3">>>>],
    [key |-> <<"c","r","e","d","i","t">>, keywords |-> <<<<"c","r","e","d","i","t">>, <<"p","r","i","v","a","t","e"," ","s","e","c","t","o","r"," ","c","r","e","d","i","t">>, <<"p","r","i","v","a","t","e"," ","c","r","e","d","i","t">>>>],
    [key |-> <<"l","e","n","d","i","n","g">>, keywords |-> <<<<"l","e","n","d","i","n","g">>, <<"l","e","n","d","i","n","g"," ","r","a","t","e">>>>] >>

\* key in variable_lower or any(kw in variable_lower for kw in keywords)
KeywordHit(entry, variable_lower) ==
    \/ Contains(entry.key, variable_lower)
    \/ \E j \in 1..Len(entry.keywords) : Contains(entry.keywords[j], variable_lower)

\* the keywords of the first family that hits, else the words longer than 2
KeywordsFor(map, variable_lower) ==
    With(First({k \in 1..Len(map) : KeywordHit(map[k], variable_lower)}),
         LAMBDA k0 : IF k0 # 0 THEN map[k0].keywords
                     ELSE SelectWords(SplitWords(variable_lower, <<>>), 2))

variable_keywords(variable) ==
    KeywordsFor(keyword_map, ReplaceChar(Lower(variable), "_", << " " >>))

\* any(kw in row_lower for kw in keywords)
RowRelevant(row_label, keywords) ==
    \E k \in 1..Len(keywords) : Contains(keywords[k], Lower(row_label))

NotFound == [found |-> FALSE, value |-> NoneStr, row |-> NoneStr, col |-> NoneStr]

\* return str(cell_val), row_label, col
Cell(row, c) ==
    [found |-> TRUE, value |-> row.cols[c].val, row |-> row.label, col |-> row.cols[c].col]

\* ColHit without the value test
ColHitAnyValue(row, by_year, year, target_value) ==
    First({c \in 1..Len(row.cols) :
              by_year => extract_year_from_col(row.cols[c].col) = year})

\* one loop over a row's columns: the first column whose value matches, among
\* those of the year when by_year, among all otherwise; 0 when there is none
ColHit(row, by_year, year, target_value) ==
    First({c \in 1..Len(row.cols) :
              /\ by_year => extract_year_from_col(row.cols[c].col) = year
              /\ numbers_match(target_value, row.cols[c].val)})

\* what one keyword-relevant row returns: its year-specific hit when a year is
\* given and there is one, else its first matching column, else 0
RowHit(row, year, target_value) ==
    With(IF year # <<>> THEN ColHit(row, TRUE, year, target_value) ELSE 0,
         LAMBDA y : IF y # 0 THEN y ELSE ColHit(row, FALSE, year, target_value))

\* the return of the first row whose loop hits, in insertion order
FirstHit(data, hit) ==
    With(First({i \in 1..Len(data) : hit[i] # 0}),
         LAMBDA r : IF r = 0 THEN NotFound ELSE Cell(data[r], hit[r]))

\* Pass 1: keyword-matched rows
Pass1(data, keywords, year, target_value) ==
    FirstHit(data, [i \in 1..Len(data) |->
                       IF RowRelevant(data[i].label, keywords)
                       THEN RowHit(data[i], year, target_value) ELSE 0])

\* Pass2 without the "col_year == year" test
Pass2AnyColumn(data, year, target_value) ==
    IF year = <<>> THEN NotFound
    ELSE FirstHit(data, [i \in 1..Len(data) |-> ColHit(data[i], FALSE, year, target_value)])

\* Pass 2: year-matched columns only (any row)
Pass2(data, year, target_value) ==
    IF year = <<>> THEN NotFound
    ELSE FirstHit(data, [i \in 1..Len(data) |-> ColHit(data[i], TRUE, year, target_value)])

\* year is <<>> for None (and for an empty string: both fail "if year")
find_value_in_table(table_data, variable_hint, year, target_value) ==
    IF table_data.data = <<>> THEN NotFound
    ELSE With(Pass1(table_data.data, variable_keywords(Lower(variable_hint)), year,
                    target_value),
              LAMBDA p1 : IF p1.found THEN p1
                          ELSE Pass2(table_data.data, year, target_value))

-----------------------------------------------------------------------------
(* Cross-table consistency *)

\* re.sub(r'\(.*?\)', '', s): each "(" up to the nearest following ")"
RECURSIVE RemoveParens(_)
RemoveParens(s) ==
    IF s = <<>> THEN <<>>
    ELSE IF Head(s) = "(" /\ \E i \in 2..Len(s) : s[i] = ")"
         THEN RemoveParens(SubSeq(s, (CHOOSE i \in 2..Len(s) :
                                          s[i] = ")" /\ \A j \in 2..(i - 1) : s[j] # ")") + 1,
                                  Len(s)))
         ELSE <<Head(s)>> \o RemoveParens(Tail(s))

\* re.sub(r'\s+', ' ', s)
RECURSIVE CollapseSpaces(_)
CollapseSpaces(s) ==
    IF s = <<>> THEN <<>>
    ELSE IF Head(s) = " " /\ Len(s) > 1 /\ s[2] = " " THEN CollapseSpaces(Tail(s))
    ELSE <<Head(s)>> \o CollapseSpaces(Tail(s))

FootnoteSuffixes == <<<<" ","1","/">>, <<" ","2","/">>, <<" ","3","/">>, <<" ","4","/">>, <<" ","5","/">>>>

RECURSIVE StripSuffixes(_, _)
StripSuffixes(s, k) ==
    IF k > Len(FootnoteSuffixes) THEN s
    ELSE StripSuffixes(ReplaceStr(s, FootnoteSuffixes[k], <<>>), k + 1)

\* the cut after the parentheses are removed: None (NoneStr) under 3 characters
NameOrNone(s) == IF Len(s) < 3 THEN NoneStr ELSE s

normalize_row_name(row_label) ==
    NameOrNone(CollapseSpaces(Strip(RemoveParens(StripSuffixes(Strip(Lower(row_label)), 1)))))

\* all rows of all tables as (table_id, row_label, row_data), in iteration order
RECURSIVE AllRows(_)
AllRows(tabs) ==
    IF tabs = <<>> THEN <<>>
    ELSE [i \in 1..Len(Head(tabs).data) |->
              [table_id |-> Head(tabs).table_id, row |-> Head(tabs).data[i]]]
         \o AllRows(Tail(tabs))

\* row_index.setdefault(norm_name, ...): a new name is appended to the key order
AddName(seen, n) ==
    IF n = NoneStr \/ \E k \in 1..Len(seen) : seen[k] = n THEN seen ELSE Append(seen, n)

\* row_index: the normalized names in order of first appearance
RECURSIVE NormNames(_, _)
NormNames(rows, seen) ==
    IF rows = <<>> THEN seen
    ELSE NormNames(Tail(rows), AddName(seen, normalize_row_name(Head(rows).row.label)))

\* row_index[norm_name]
RECURSIVE EntriesOf(_, _)
EntriesOf(rows, norm_name) ==
    IF rows = <<>> THEN <<>>
    ELSE (IF normalize_row_name(Head(rows).row.label) = norm_name
          THEN <<Head(rows)>> ELSE <<>>) \o EntriesOf(Tail(rows), norm_name)

YearsOf(entries) ==
    UNION {{extract_year_from_col(entries[e].row.cols[c].col) :
                c \in 1..Len(entries[e].row.cols)} : e \in 1..Len(entries)} \ {NoneStr}

\* sorted(all_years)
RECURSIVE SortedYears(_)
SortedYears(ys) ==
    IF ys = {} THEN <<>>
    ELSE LET m == CHOOSE y \in ys : \A z \in ys : DigitsVal(y) <= DigitsVal(z)
         IN  <<m>> \o SortedYears(ys \ {m})

\* the dict appended for an entry whose column c is its first of the year
ValueAt(entry, c) ==
    IF c = 0 THEN <<>>
    ELSE << [table_id |-> entry.table_id, row |-> entry.row.label,
             col |-> entry.row.cols[c].col, value |-> entry.row.cols[c].val] >>

\* the values list for one year: per entry, its first column of that year
RECURSIVE ValuesFor(_, _)
ValuesFor(entries, year) ==
    IF entries = <<>> THEN <<>>
    ELSE ValueAt(Head(entries),
                 First({k \in 1..Len(Head(entries).row.cols) :
                           extract_year_from_col(Head(entries).row.cols[k].col) = year}))
         \o ValuesFor(Tail(entries), year)

\* nums: the parsed values that are not None
RECURSIVE Nums(_)
Nums(values) ==
    IF values = <<>> THEN <<>>
    ELSE normalize_number(Head(values).value) \o Nums(Tail(values))

RECURSIVE JoinVs(_)
JoinVs(values) ==
    IF values = <<>> THEN <<>>
    ELSE Head(values).value \o <<" ","(">> \o Head(values).table_id \o <<")">>
         \o (IF Len(values) > 1 THEN <<" ","v","s"," ">> ELSE <<>>) \o JoinVs(Tail(values))

\* all(abs(nums[0] - n) <= tolerance for n in nums[1:])
AllMatch(nums) == \A k \in 2..Len(nums) : Close(nums[1], nums[k], Tolerance)

CrossResult(norm_name, year, values, all_match) ==
    [variable |-> norm_name, year |-> year, entries |-> values,
     status |-> IF all_match THEN "CONSISTENT" ELSE "INCONSISTENT",
     detail |-> norm_name \o <<" ","(">> \o year \o <<")",":"," ">> \o
                (IF all_match
                 THEN values[1].value \o <<" ","a","c","r","o","s","s"," ">> \o NatStr(Len(values)) \o <<" ","t","a","b","l","e","s">>
                 ELSE JoinVs(values))]

\* YearResult without the "len(nums) < 2" test
YearResultAnyNums(norm_name, year, values, nums) ==
    IF Len(values) < 2 THEN <<>>
    ELSE <<CrossResult(norm_name, year, values, AllMatch(nums))>>

\* the body of "for year in sorted(all_years)" once values is built
YearResult(norm_name, year, values, nums) ==
    IF Len(values) < 2 \/ Len(nums) < 2 THEN <<>>
    ELSE <<CrossResult(norm_name, year, values, AllMatch(nums))>>

RECURSIVE ResultsForYears(_, _, _)
ResultsForYears(norm_name, entries, years) ==
    IF years = <<>> THEN <<>>
    ELSE With(ValuesFor(entries, Head(years)),
              LAMBDA values : YearResult(norm_name, Head(years), values, Nums(values)))
         \o ResultsForYears(norm_name, entries, Tail(years))

\* the body of "for norm_name, entries in row_index.items()"
NameResults(norm_name, entries) ==
    IF Len(entries) < 2 THEN <<>>
    ELSE ResultsForYears(norm_name, entries, SortedYears(YearsOf(entries)))

RECURSIVE ResultsForNames(_, _)
ResultsForNames(rows, names) ==
    IF names = <<>> THEN <<>>
    ELSE NameResults(Head(names), EntriesOf(rows, Head(names)))
         \o ResultsForNames(rows, Tail(names))

\* rows: all rows of all tables in iteration order
CrossTableResults(rows) == ResultsForNames(rows, NormNames(rows, <<>>))

check_cross_table_consistency(tabs) == CrossTableResults(AllRows(tabs))

-----------------------------------------------------------------------------
(* The graph *)

EmptyGraph == [nodes |-> <<>>, edges |-> <<>>, verifications |-> <<>>, cross_table_checks |-> <<>>]

add_node(g, node) == [g EXCEPT !.nodes = Append(@, node)]

add_edge(g, edge) == [g EXCEPT !.edges = Append(@, edge)]

\* add_verification inserting at the front of the list
add_verification_first(g, v) == [g EXCEPT !.verifications = <<v>> \o @]

\* graph.verifications.append(...)
add_verification(g, v) == [g EXCEPT !.verifications = Append(@, v)]

\* any(n.id == id for n in graph.nodes)
HasNode(g, id) == \E k \in 1..Len(g.nodes) : g.nodes[k].id = id

NoMeta == [none |-> TRUE]

\* table_id in tables
InTables(tabs, tid) == \E k \in 1..Len(tabs) : tabs[k].table_id = tid

\* tables[table_id]
TableById(tabs, tid) == tabs[CHOOSE k \in 1..Len(tabs) : tabs[k].table_id = tid]

\* tables[table_id] = table_data: a new key is appended, a known key keeps its place
DictSet(tabs, t) ==
    IF InTables(tabs, t.table_id)
    THEN [k \in 1..Len(tabs) |-> IF tabs[k].table_id = t.table_id THEN t ELSE tabs[k]]
    ELSE Append(tabs, t)

TableNode(t) ==
    [id |-> t.table_id, type |-> "table", label |-> t.table_title,
     metadata |-> [page |-> NoneStr, columns |-> <<>>, units |-> <<>>]]

\* the "Add table nodes" loop
RECURSIVE AddTableNodes(_, _)
AddTableNodes(g, tabs) ==
    IF tabs = <<>> THEN g ELSE AddTableNodes(add_node(g, TableNode(Head(tabs))), Tail(tabs))

\* f"claim_{i}" for the 1-based position i + 1
ClaimId(i) == <<"c","l","a","i","m","_">> \o NatStr(i - 1)

ClaimNode(i, claim) ==
    [id |-> ClaimId(i), type |-> "claim", label |-> Prefix(claim.claim_text, 120),
     metadata |-> [full_text |-> claim.claim_text, page |-> <<"u","n","k","n","o","w","n">>,
                   likely_table |-> claim.likely_table, variables |-> <<>>]]

\* f"cell_{table_id}_{row}_{col}".replace(" ", "_")[:80]
CellId(table_id, row, col) ==
    Prefix(ReplaceChar(<<"c","e","l","l","_">> \o Fmt(table_id) \o <<"_">> \o Fmt(row) \o <<"_">> \o Fmt(col),
                       " ", <<"_">>), 80)

CellNode(table_id, row, col, value) ==
    [id |-> CellId(table_id, row, col), type |-> "cell",
     label |-> Fmt(row) \o <<" ","/"," ">> \o Fmt(col) \o <<" ","="," ">> \o Fmt(value),
     metadata |-> [table_id |-> table_id, row |-> row, col |-> col, value |-> value]]

\* AddCellNode without the "if not any(n.id == cell_id ...)" check
AddCellNodeNoDedup(g, table_id, row, col, value) ==
    add_node(g, CellNode(table_id, row, col, value))

\* the dedup check and append of a cell node
AddCellNode(g, table_id, row, col, value) ==
    IF HasNode(g, CellId(table_id, row, col)) THEN g
    ELSE add_node(g, CellNode(table_id, row, col, value))

\* the dedup check and append of a variable node
AddVarNode(g, variable) ==
    IF HasNode(g, <<"v","a","r","_">> \o variable) THEN g
    ELSE add_node(g, [id |-> <<"v","a","r","_">> \o variable, type |-> "variable", label |-> variable,
                      metadata |-> NoMeta])

-----------------------------------------------------------------------------
(* Deterministic matching *)

search_tables(likely_table, tabs) ==
    (IF likely_table # <<"u","n","k","n","o","w","n">> /\ InTables(tabs, likely_table)
     THEN <<TableById(tabs, likely_table)>> ELSE <<>>)
    \o SelectSeq(tabs, LAMBDA t : t.table_id # likely_table)

\* year if year != "unknown" else None
YearArg(year) == IF year = <<"u","n","k","n","o","w","n">> THEN <<>> ELSE year

\* the cell node, both edges and the verification for the cell found in table_id
RecordCell(g, claim_id, variable, value_str, year, table_id, cell, cell_id, status) ==
    add_verification(
        add_edge(
            add_edge(AddCellNode(g, table_id, cell.row, cell.col, cell.value),
                     [source |-> table_id, target |-> cell_id, type |-> "contains_cell",
                      metadata |-> NoMeta]),
            [source |-> claim_id, target |-> cell_id, type |-> "verified_by",
             metadata |-> [status |-> status]]),
        [claim_id |-> claim_id, status |-> status, claim_value |-> value_str,
         table_value |-> cell.value, table_id |-> table_id, variable |-> variable,
         year |-> year,
         detail |-> <<"C","l","a","i","m",":"," ">> \o value_str \o <<" ","|"," ","T","a","b","l","e",":"," ">> \o cell.value \o <<" ","(">>
                    \o cell.row \o <<" ","/"," ">> \o cell.col \o <<")">>,
         resolution_method |-> "deterministic"])

\* the body of "if cell_value is not None"
RecordDeterministic(g, claim_id, variable, value_str, year, table_id, cell) ==
    RecordCell(g, claim_id, variable, value_str, year, table_id, cell,
               CellId(table_id, cell.row, cell.col),
               IF numbers_match(value_str, cell.value) THEN "MATCH" ELSE "MISMATCH")

\* the loop over search_tables, given what _find_value_in_table returns for each:
\* the first table with a cell is recorded and True returned
FirstTableFound(g, claim_id, variable, value_str, year, st, cells) ==
    With(First({k \in 1..Len(st) : cells[k].found}),
         LAMBDA k0 :
            IF k0 = 0 THEN [graph |-> g, found |-> FALSE]
            ELSE [graph |-> RecordDeterministic(g, claim_id, variable, value_str, year,
                                                st[k0].table_id, cells[k0]),
                  found |-> TRUE])

\* [graph, found]: the graph after the call and the value returned
try_deterministic_match(g, claim_id, variable, value_str, year, likely_table, tabs) ==
    With(search_tables(likely_table, tabs),
         LAMBDA st :
            FirstTableFound(g, claim_id, variable, value_str, year, st,
                [k \in 1..Len(st) |->
                    find_value_in_table(st[k], variable, YearArg(year), value_str)]))

Unverifiable(claim_id, variable, value_str, year) ==
    [claim_id |-> claim_id, status |-> "UNVERIFIABLE", claim_value |-> value_str,
     table_value |-> NoneStr, table_id |-> NoneStr, variable |-> variable, year |-> year,
     detail |-> <<"V","a","l","u","e"," ">> \o value_str \o <<" ","f","o","r"," ">> \o variable \o <<" ","(">> \o year
                \o <<")"," ","n","o","t"," ","f","o","u","n","d"," ","i","n"," ","a","n","y"," ","t","a","b","l","e">>,
     resolution_method |-> "deterministic"]

Qualitative(claim_id) ==
    [claim_id |-> claim_id, status |-> "QUALITATIVE", claim_value |-> NoneStr,
     table_value |-> NoneStr, table_id |-> NoneStr, variable |-> NoneStr, year |-> NoneStr,
     detail |-> <<"N","o"," ","n","u","m","e","r","i","c"," ","v","a","l","u","e","s"," ","t","o"," ","v","e","r","i","f","y">>, resolution_method |-> "deterministic"]

-----------------------------------------------------------------------------
(* Alternate (LLM) resolution inside build_graph *)

\* llm_resolutions.get(claim_id): <<>> for None, else <<resolution>>; the dict
\* is filled in list order, so the last resolution of a claim_id is the one kept
LlmGet(resolutions, claim_id) ==
    LET ks == {k \in 1..Len(resolutions) : resolutions[k].claim_id = claim_id}
    IN  IF ks = {} THEN <<>>
        ELSE <<resolutions[CHOOSE k \in ks : \A j \in ks : j <= k]>>

\* <<>> for None, else <<match>>
find_llm_match(resolution, variable, value_str) ==
    LET ms == resolution.matches
        exact == First({k \in 1..Len(ms) : /\ ms[k].variable = variable
                                            /\ ms[k].claim_value = value_str})
        partial == First({k \in 1..Len(ms) : ms[k].claim_value = value_str})
    IN  IF exact # 0 THEN <<ms[exact]>>
        ELSE IF partial # 0 THEN <<ms[partial]>>
        ELSE <<>>

add_verification_from_llm(g, claim_id, match, tabs) ==
    LET table_id == match.table_id
        cell_id == CellId(table_id, match.row_label, match.col_label)
        g1 == IF table_id # NoneStr /\ table_id # <<>> /\ InTables(tabs, table_id)
              THEN add_edge(
                     add_edge(
                       AddCellNode(g, table_id, match.row_label, match.col_label,
                                   match.table_value),
                       [source |-> table_id, target |-> cell_id, type |-> "contains_cell",
                        metadata |-> NoMeta]),
                     [source |-> claim_id, target |-> cell_id, type |-> "verified_by",
                      metadata |-> [status |-> match.match_status, method |-> "llm"]])
              ELSE g
    IN  add_verification(g1,
            [claim_id |-> claim_id,
             status |-> IF match.match_status = "MATCH" THEN "MATCH" ELSE "MISMATCH",
             claim_value |-> match.claim_value, table_value |-> match.table_value,
             table_id |-> table_id, variable |-> match.variable, year |-> match.year,
             detail |-> <<"L","L","M",":"," ">> \o match.reasoning, resolution_method |-> "llm"])

\* LlmAccepted without the NOT_FOUND test
LlmAcceptedAnyStatus(llm_match) == llm_match # <<>>

\* llm_match and llm_match.match_status != "NOT_FOUND"
LlmAccepted(llm_match) == llm_match # <<>> /\ llm_match[1].match_status # "NOT_FOUND"

\* the selected alternate-resolver entry for a mention: <<>> or <<match>>
LlmMatchFor(llm_resolution, variable, value_str) ==
    IF llm_resolution = <<>> THEN <<>>
    ELSE find_llm_match(llm_resolution[1], variable, value_str)

\* OrUnverifiable without the "if not found" block
OrNothing(r, claim_id, variable, value_str, year) == r.graph

\* "if not found": the UNVERIFIABLE record
OrUnverifiable(r, claim_id, variable, value_str, year) ==
    IF r.found THEN r.graph
    ELSE add_verification(r.graph, Unverifiable(claim_id, variable, value_str, year))

\* "Fall back to deterministic matching"
Fallback(g, claim_id, variable, value_str, year, likely_table, tabs) ==
    OrUnverifiable(
        try_deterministic_match(g, claim_id, variable, value_str, year, likely_table, tabs),
        claim_id, variable, value_str, year)

\* Skipped without the "unknown" test
SkippedOnlyEmpty(val) == val.value = <<>>

\* value_str is empty or "unknown": the mention is skipped
Skipped(val) == val.value = <<>> \/ val.value = <<"u","n","k","n","o","w","n">>

\* the variable node and the mentions_variable edge
MentionVariable(g, claim_id, val) ==
    add_edge(AddVarNode(g, val.variable),
             [source |-> claim_id, target |-> <<"v","a","r","_">> \o val.variable,
              type |-> "mentions_variable",
              metadata |-> [value |-> val.value, year |-> val.year]])

\* Verify without the "continue" after an accepted alternate answer: the
\* deterministic path runs as well
VerifyWithoutContinue(g, claim_id, val, llm_match, likely_table, tabs) ==
    Fallback(IF LlmAccepted(llm_match)
             THEN add_verification_from_llm(g, claim_id, llm_match[1], tabs)
             ELSE g,
             claim_id, val.variable, val.value, val.year, likely_table, tabs)

\* the verification step of a mention, given the alternate resolver's entry for it
Verify(g, claim_id, val, llm_match, likely_table, tabs) ==
    IF LlmAccepted(llm_match)
    THEN add_verification_from_llm(g, claim_id, llm_match[1], tabs)
    ELSE Fallback(g, claim_id, val.variable, val.value, val.year, likely_table, tabs)

\* one iteration of "for val in values"
process_value(g, claim_id, val, llm_resolution, likely_table, tabs) ==
    IF Skipped(val) THEN g
    ELSE Verify(MentionVariable(g, claim_id, val), claim_id, val,
                LlmMatchFor(llm_resolution, val.variable, val.value), likely_table, tabs)


\* the claim node and the references edge
ClaimNodeAndReference(g, i, claim, tabs) ==
    IF claim.likely_table # <<"u","n","k","n","o","w","n">> /\ InTables(tabs, claim.likely_table)
    THEN add_edge(add_node(g, ClaimNode(i, claim)),
                  [source |-> ClaimId(i), target |-> claim.likely_table,
                   type |-> "references", metadata |-> NoMeta])
    ELSE add_node(g, ClaimNode(i, claim))

\* claim_head without the "if not values" block
claim_head_no_qualitative(g, i, claim, tabs) == ClaimNodeAndReference(g, i, claim, tabs)

\* one iteration of "for i, claim in enumerate(claims)" up to the value loop
claim_head(g, i, claim, tabs) ==
    IF claim.values_mentioned = <<>>
    THEN add_verification(ClaimNodeAndReference(g, i, claim, tabs), Qualitative(ClaimId(i)))
    ELSE ClaimNodeAndReference(g, i, claim, tabs)

-----------------------------------------------------------------------------
(* resolve_claims_batch *)

\* the default batch_size, which build_graph's call leaves in place
DefaultBatchSize == 5

\* [(i, c) for i, c in enumerate(claims) if c.get("values_mentioned") ...]
RECURSIVE NumericFrom(_, _)
NumericFrom(cs, i) ==
    IF i > Len(cs) THEN <<>>
    ELSE (IF cs[i].values_mentioned # <<>> THEN << [idx |-> i, claim |-> cs[i]] >> ELSE <<>>)
         \o NumericFrom(cs, i + 1)

numeric_claims(cs) == NumericFrom(cs, 1)

\* numeric_claims[batch_start:batch_start + batch_size]
BatchAt(cs, start, size) ==
    LET nc == numeric_claims(cs)
        last == IF start + size < Len(nc) THEN start + size ELSE Len(nc)
    IN  SubSeq(nc, start + 1, last)

CellMatch(variable, claim_value, year, table_id, row_label, col_label, table_value, match_status, reasoning) ==
    [variable |-> variable, claim_value |-> claim_value, year |-> year,
     table_id |-> table_id, row_label |-> row_label, col_label |-> col_label,
     table_value |-> table_value, match_status |-> match_status, reasoning |-> reasoning]

\* the except branch: a NOT_FOUND match per value of every claim of the batch
FailedBatchResolutions(batch, e) ==
    [k \in 1..Len(batch) |->
        [claim_id |-> ClaimId(batch[k].idx),
         matches |-> [j \in 1..Len(batch[k].claim.values_mentioned) |->
            LET v == batch[k].claim.values_mentioned[j]
            IN  CellMatch(v.variable, v.value, v.year, NoneStr, NoneStr, NoneStr, NoneStr,
                          "NOT_FOUND", <<"L","L","M"," ","r","e","s","o","l","u","t","i","o","n"," ","f","a","i","l","e","d",":"," ">> \o e)]]]

\* The external model's answers.  The call returns whatever the model says;
\* these are the shapes of answer the run is exposed to here, one per batch:
\*   none       message.parsed is None
\*   omit       resolutions is empty
\*   not_found  every value of every claim answered NOT_FOUND
\*   match      every value answered MATCH at the cell LlmCell
\*   first_only only the first value of each claim answered (MATCH at LlmCell)
\*   other_var  one entry per claim, for another variable but the first value's literal
\*   mismatch   every value answered MISMATCH with no table cell
ReplyKinds == {"none", "omit", "not_found", "match", "first_only", "other_var", "mismatch"}

LlmCell == [table_id |-> <<"T","1">>, row_label |-> <<"R","e","a","l"," ","G","D","P"," ","g","r","o","w","t","h">>, col_label |-> <<"2","0","2","3">>,
            table_value |-> <<"3",".","1","5">>]

ReplyMatch(v, variable, status) ==
    IF status = "MATCH"
    THEN CellMatch(variable, v.value, v.year, LlmCell.table_id, LlmCell.row_label,
                   LlmCell.col_label, LlmCell.table_value, "MATCH", <<"s","e","m","a","n","t","i","c"," ","m","a","t","c","h">>)
    ELSE CellMatch(variable, v.value, v.year, NoneStr, NoneStr, NoneStr, NoneStr,
                   status, <<"n","o"," ","c","e","l","l">>)

ReplyMatches(kind, values) ==
    IF kind = "first_only" THEN <<ReplyMatch(values[1], values[1].variable, "MATCH")>>
    ELSE IF kind = "other_var" THEN <<ReplyMatch(values[1], <<"o","t","h","e","r">>, "MATCH")>>
    ELSE [j \in 1..Len(values) |->
            ReplyMatch(values[j], values[j].variable,
                       IF kind = "match" THEN "MATCH"
                       ELSE IF kind = "mismatch" THEN "MISMATCH" ELSE "NOT_FOUND")]

\* batch_result.resolutions (empty when batch_result is None)
Reply(kind, batch) ==
    IF kind \in {"none", "omit"} THEN <<>>
    ELSE [k \in 1..Len(batch) |->
            [claim_id |-> ClaimId(batch[k].idx),
             matches |-> ReplyMatches(kind, batch[k].claim.values_mentioned)]]

\* str(e) of the exception a failed call raises
FailureReasons == {<<"t","i","m","e","o","u","t">>}

-----------------------------------------------------------------------------
(* Inputs *)

Row(label, cols) == [label |-> label, cols |-> cols]
Col(col, val) == [col |-> col, val |-> val]
Mention(variable, value, year) == [variable |-> variable, value |-> value, year |-> year]

\* the table files the tables directory may hold
TableT1 ==
    [table_id |-> <<"T","1">>, table_title |-> <<"S","e","l","e","c","t","e","d"," ","i","n","d","i","c","a","t","o","r","s">>,
     data |-> << Row(<<"R","e","a","l"," ","G","D","P"," ","g","r","o","w","t","h">>, <<Col(<<"2","0","2","2">>, <<"3",".","1">>), Col(<<"2","0","2","3">>, <<"3",".","1","5">>)>>),
                 Row(<<"F","i","s","c","a","l"," ","b","a","l","a","n","c","e">>, <<Col(<<"2","0","2","3">>, <<"1",".","2">>)>>) >>]

TableT2 ==
    [table_id |-> <<"T","2">>, table_title |-> <<"M","e","d","i","u","m","-","t","e","r","m"," ","o","u","t","l","o","o","k">>,
     data |-> << Row(<<"R","e","a","l"," ","G","D","P"," ","g","r","o","w","t","h"," ","1","/">>, <<Col(<<"2","0","2","2">>, <<"3",".","1">>), Col(<<"2","0","2","3","_","P","r","o","j",".">>, <<"5",".","0">>)>>),
                 Row(<<"G","D","P"," ","g","r","o","w","t","h"," ","e","s","t">>, <<Col(<<"2","0","2","3">>, <<"3",".","2">>)>>),
                 Row(<<"O","u","t","p","u","t">>, <<Col(<<"M","e","m","o","r","a","n","d","u","m">>, <<"n",".","a",".">>), Col(<<"2","0","2","3">>, <<"7",".","5">>)>>),
                 Row(<<"f","i","s","c","a","l"," ","b","a","l","a","n","c","e">>, <<Col(<<"2","0","2","3">>, <<"1",".","5">>)>>) >>]

TablePool == {TableT1, TableT2}

\* the claim records narrative_claims.json may hold
ClaimQualitative ==
    [claim_text |-> <<"O","u","t","l","o","o","k"," ","i","s"," ","s","t","a","b","l","e">>, likely_table |-> <<"u","n","k","n","o","w","n">>, values_mentioned |-> <<>>]

ClaimGdp ==
    [claim_text |-> <<"G","D","P"," ","g","r","e","w"," ","3",".","2"," ","p","e","r","c","e","n","t"," ","i","n"," ","2","0","2","3">>, likely_table |-> <<"T","1">>,
     values_mentioned |-> <<Mention(<<"r","e","a","l","_","g","d","p">>, <<"3",".","2">>, <<"2","0","2","3">>)>>]

ClaimTwo ==
    [claim_text |-> <<"P","r","i","c","e","s"," ","r","o","s","e"," ","7",".","5"," ","p","e","r","c","e","n","t">>, likely_table |-> <<"T","9">>,
     values_mentioned |-> <<Mention(<<"i","n","f","l","a","t","i","o","n">>, <<"7",".","5">>, <<"2","0","2","3">>),
                            Mention(<<"d","e","b","t">>, <<"a","b","c">>, <<"u","n","k","n","o","w","n">>)>>]

ClaimUnknown ==
    [claim_text |-> <<"D","e","b","t"," ","i","s"," ","h","i","g","h">>, likely_table |-> <<"u","n","k","n","o","w","n">>,
     values_mentioned |-> <<Mention(<<"d","e","b","t">>, <<"u","n","k","n","o","w","n">>, <<"2","0","2","3">>), Mention(<<"d","e","b","t">>, <<>>, <<"2","0","2","3">>)>>]

ClaimPool == {ClaimQualitative, ClaimGdp, ClaimTwo, ClaimUnknown}

\* most claims in narrative_claims.json
MaxClaims == 2

\* most table files in the tables directory
MaxTables == 2

RECURSIVE SeqsUpTo(_, _)
SeqsUpTo(S, n) ==
    IF n = 0 THEN {<<>>}
    ELSE SeqsUpTo(S, n - 1) \cup {Append(q, x) : q \in {p \in SeqsUpTo(S, n - 1) : Len(p) = n - 1}, x \in S}

ClaimInputs == SeqsUpTo(ClaimPool, MaxClaims)

OutputFiles == {"consistency_graph.json", "consistency_report.md", "verification_summary.html"}

NoCall == [table |-> TableT1, variable_hint |-> <<>>, year |-> <<>>, target_value |-> <<>>]

\* no concurrent workers
NoWorkers == [writes |-> <<>>, done |-> <<>>, cross |-> FALSE]

-----------------------------------------------------------------------------
(* The run: main, build_graph and resolve_claims_batch *)

Init ==
    /\ pc = "main"
    /\ error = "none"
    /\ use_llm \in BOOLEAN
    /\ api_key_set \in BOOLEAN
    /\ (~use_llm => ~api_key_set)
    /\ claims = <<>>
    /\ tables = <<>>
    /\ graph = EmptyGraph
    /\ batch_size = DefaultBatchSize
    /\ batch_start = 0
    /\ all_resolutions = <<>>
    /\ batch_log = <<>>
    /\ llm_resolutions = <<>>
    /\ ci = 1
    /\ vi = 1
    /\ written = {}
    /\ call = NoCall
    /\ ret = NotFound
    /\ workers = NoWorkers

\* main: input_dir, narrative_claims.json or the tables directory is missing
MainMissingInput ==
    /\ pc = "main"
    /\ \E what \in {"input_dir missing", "claims file missing", "tables dir missing"} :
           error' = what
    /\ pc' = "exited"
    /\ UNCHANGED <<workers, use_llm, api_key_set, claims, tables, graph, batch_size, batch_start,
                   all_resolutions, batch_log, llm_resolutions, ci, vi, written, call, ret>>

\* main: the paths exist, build_graph is called and creates the empty graph
MainCallsBuild ==
    /\ pc = "main"
    /\ pc' = "load_claims"
    /\ graph' = EmptyGraph
    /\ UNCHANGED <<workers, error, use_llm, api_key_set, claims, tables, batch_size, batch_start,
                   all_resolutions, batch_log, llm_resolutions, ci, vi, written, call, ret>>

\* open(claims_path) / json.load succeed
LoadClaimsOk ==
    /\ pc = "load_claims"
    /\ \E cs \in ClaimInputs : claims' = cs
    /\ pc' = "load_tables"
    /\ UNCHANGED <<workers, error, use_llm, api_key_set, tables, graph, batch_size, batch_start,
                   all_resolutions, batch_log, llm_resolutions, ci, vi, written, call, ret>>

\* open(claims_path) / json.load raise
LoadClaimsFail ==
    /\ pc = "load_claims"
    /\ error' = "claims file unreadable"
    /\ pc' = "aborted"
    /\ UNCHANGED <<workers, use_llm, api_key_set, claims, tables, graph, batch_size, batch_start,
                   all_resolutions, batch_log, llm_resolutions, ci, vi, written, call, ret>>

\* LoadTableOk with the table node added as the file is loaded
LoadTableOkAddsNode ==
    /\ pc = "load_tables"
    /\ Len(tables) < MaxTables
    /\ \E t \in TablePool :
           /\ ~InTables(tables, t.table_id)
           /\ tables' = DictSet(tables, t)
           /\ graph' = add_node(graph, TableNode(t))
    /\ UNCHANGED <<workers, pc, error, use_llm, api_key_set, claims, batch_size, batch_start,
                   all_resolutions, batch_log, llm_resolutions, ci, vi, written, call, ret>>

\* one iteration of the table loading loop, the file read and parsed
LoadTableOk ==
    /\ pc = "load_tables"
    /\ Len(tables) < MaxTables
    /\ \E t \in TablePool :
           /\ ~InTables(tables, t.table_id)
           /\ tables' = DictSet(tables, t)
    /\ UNCHANGED <<workers, pc, error, use_llm, api_key_set, claims, graph, batch_size, batch_start,
                   all_resolutions, batch_log, llm_resolutions, ci, vi, written, call, ret>>

\* one iteration of the table loading loop, open or json.load raising
LoadTableFail ==
    /\ pc = "load_tables"
    /\ Len(tables) < MaxTables
    /\ error' = "table file unreadable"
    /\ pc' = "aborted"
    /\ UNCHANGED <<workers, use_llm, api_key_set, claims, tables, graph, batch_size, batch_start,
                   all_resolutions, batch_log, llm_resolutions, ci, vi, written, call, ret>>

\* the glob is exhausted: the table nodes are added
TablesLoaded ==
    /\ pc = "load_tables"
    /\ graph' = AddTableNodes(graph, tables)
    /\ pc' = IF use_llm THEN "llm_client" ELSE "claim"
    /\ UNCHANGED <<workers, error, use_llm, api_key_set, claims, tables, batch_size, batch_start,
                   all_resolutions, batch_log, llm_resolutions, ci, vi, written, call, ret>>

\* resolve_claims_batch: OpenAI(api_key=...) with a key
ClientCreated ==
    /\ pc = "llm_client"
    /\ api_key_set
    /\ pc' = "batch"
    /\ batch_start' = 0
    /\ all_resolutions' = <<>>
    /\ UNCHANGED <<workers, error, use_llm, api_key_set, claims, tables, graph, batch_size,
                   batch_log, llm_resolutions, ci, vi, written, call, ret>>

\* resolve_claims_batch: OpenAI(api_key=None) raises, outside any try
ClientFails ==
    /\ pc = "llm_client"
    /\ ~api_key_set
    /\ error' = "OpenAI client: no api key"
    /\ pc' = "aborted"
    /\ UNCHANGED <<workers, use_llm, api_key_set, claims, tables, graph, batch_size, batch_start,
                   all_resolutions, batch_log, llm_resolutions, ci, vi, written, call, ret>>

\* the accumulator after a batch whose call returned
AfterBatchOk(acc, batch, kind) == acc \o Reply(kind, batch)

\* AfterBatchFail assigning the accumulator where the code appends to it
AfterBatchFailAssigns(acc, batch, e) == FailedBatchResolutions(batch, e)

\* the accumulator after a batch whose call raised
AfterBatchFail(acc, batch, e) == acc \o FailedBatchResolutions(batch, e)

\* one iteration of the batch loop, the call returning
BatchCallOk ==
    /\ pc = "batch"
    /\ batch_start < Len(numeric_claims(claims))
    /\ \E kind \in ReplyKinds :
           all_resolutions' =
               AfterBatchOk(all_resolutions, BatchAt(claims, batch_start, batch_size), kind)
    /\ batch_log' = Append(batch_log, [start |-> batch_start, failed |-> FALSE,
                                        reason |-> <<>>, before |-> all_resolutions])
    /\ batch_start' = batch_start + batch_size
    /\ UNCHANGED <<workers, pc, error, use_llm, api_key_set, claims, tables, graph, batch_size,
                   llm_resolutions, ci, vi, written, call, ret>>

\* one iteration of the batch loop, the call raising
BatchCallFail ==
    /\ pc = "batch"
    /\ batch_start < Len(numeric_claims(claims))
    /\ \E e \in FailureReasons :
           /\ all_resolutions' =
                  AfterBatchFail(all_resolutions, BatchAt(claims, batch_start, batch_size), e)
           /\ batch_log' = Append(batch_log, [start |-> batch_start, failed |-> TRUE,
                                               reason |-> e, before |-> all_resolutions])
    /\ batch_start' = batch_start + batch_size
    /\ UNCHANGED <<workers, pc, error, use_llm, api_key_set, claims, tables, graph, batch_size,
                   llm_resolutions, ci, vi, written, call, ret>>

\* the range is exhausted: return all_resolutions
BatchReturn ==
    /\ pc = "batch"
    /\ batch_start >= Len(numeric_claims(claims))
    /\ pc' = "batch_returned"
    /\ UNCHANGED <<workers, error, use_llm, api_key_set, claims, tables, graph, batch_size,
                   batch_start, all_resolutions, batch_log, llm_resolutions, ci, vi,
                   written, call, ret>>

\* build_graph: for r in resolutions: llm_resolutions[r.claim_id] = r
StoreResolutions ==
    /\ pc = "batch_returned"
    /\ llm_resolutions' = all_resolutions
    /\ pc' = "claim"
    /\ UNCHANGED <<workers, error, use_llm, api_key_set, claims, tables, graph, batch_size,
                   batch_start, all_resolutions, batch_log, ci, vi, written, call, ret>>

\* the claim loop up to the value loop: claim node, references edge, QUALITATIVE
ClaimStep ==
    /\ pc = "claim"
    /\ ci <= Len(claims)
    /\ graph' = claim_head(graph, ci, claims[ci], tables)
    /\ IF claims[ci].values_mentioned = <<>>
       THEN /\ ci' = ci + 1
            /\ UNCHANGED <<pc, vi>>
       ELSE /\ pc' = "value"
            /\ vi' = 1
            /\ UNCHANGED ci
    /\ UNCHANGED <<workers, error, use_llm, api_key_set, claims, tables, batch_size, batch_start,
                   all_resolutions, batch_log, llm_resolutions, written, call, ret>>

\* one iteration of the value loop
ValueStep ==
    /\ pc = "value"
    /\ graph' = process_value(graph, ClaimId(ci), claims[ci].values_mentioned[vi],
                              LlmGet(llm_resolutions, ClaimId(ci)),
                              claims[ci].likely_table, tables)
    /\ IF vi < Len(claims[ci].values_mentioned)
       THEN /\ vi' = vi + 1
            /\ UNCHANGED <<pc, ci>>
       ELSE /\ pc' = "claim"
            /\ ci' = ci + 1
            /\ vi' = 1
    /\ UNCHANGED <<workers, error, use_llm, api_key_set, claims, tables, batch_size, batch_start,
                   all_resolutions, batch_log, llm_resolutions, written, call, ret>>

\* after the claim loop: the cross-table checks are attached and the graph returned
CrossTableStep ==
    /\ pc = "claim"
    /\ ci > Len(claims)
    /\ graph' = [graph EXCEPT !.cross_table_checks = check_cross_table_consistency(tables)]
    /\ pc' = "built"
    /\ UNCHANGED <<workers, error, use_llm, api_key_set, claims, tables, batch_size, batch_start,
                   all_resolutions, batch_log, llm_resolutions, ci, vi, written, call, ret>>

\* main: the graph JSON, the markdown report and the HTML dashboard are written
WriteOutputs ==
    /\ pc = "built"
    /\ written' = OutputFiles
    /\ pc' = "done"
    /\ UNCHANGED <<workers, error, use_llm, api_key_set, claims, tables, graph, batch_size,
                   batch_start, all_resolutions, batch_log, llm_resolutions, ci, vi,
                   call, ret>>

Next ==
    \/ MainMissingInput
    \/ MainCallsBuild
    \/ LoadClaimsOk
    \/ LoadClaimsFail
    \/ LoadTableOk
    \/ LoadTableFail
    \/ TablesLoaded
    \/ ClientCreated
    \/ ClientFails
    \/ BatchCallOk
    \/ BatchCallFail
    \/ BatchReturn
    \/ StoreResolutions
    \/ ClaimStep
    \/ ValueStep
    \/ CrossTableStep
    \/ WriteOutputs

Spec == Init /\ [][Next]_vars

-----------------------------------------------------------------------------
(* _find_value_in_table called on its own *)

\* the tables, variable hints, years and target literals of the direct calls
TableNone == [table_id |-> <<"T","0">>, table_title |-> <<"E","m","p","t","y">>, data |-> <<>>]

TableT3 ==
    [table_id |-> <<"T","3">>, table_title |-> <<"M","o","n","e","t","a","r","y"," ","s","u","r","v","e","y">>,
     data |-> << Row(<<"B","r","o","a","d"," ","m","o","n","e","y">>, <<Col(<<"2","0","2","2">>, <<"7",".","5">>), Col(<<"2","0","2","3">>, <<"7",".","4">>),
                                      Col(<<"2","0","2","3","_","P","r","o","j",".">>, <<"7",".","5">>)>>),
                 Row(<<"O","u","t","p","u","t">>, <<Col(<<"2","0","2","3">>, <<"7",".","6">>)>>) >>]

TableT4 ==
    [table_id |-> <<"T","4">>, table_title |-> <<"M","e","m","o","r","a","n","d","u","m"," ","i","t","e","m","s">>,
     data |-> << Row(<<"O","u","t","p","u","t"," ","g","a","p">>, <<Col(<<"M","e","m","o","r","a","n","d","u","m">>, <<"7",".","5">>), Col(<<"2","0","2","3","_","P","r","o","j",".">>, <<"1",".","3">>)>>),
                 Row(<<"O","t","h","e","r"," ","i","t","e","m","s">>, <<Col(<<"M","e","m","o"," ","2","0","2","3">>, <<"3",".","2">>)>>) >>]

CallTables == {TableT1, TableT2, TableT3, TableT4, TableNone}

CallHints == {<<"r","e","a","l","_","g","d","p">>, <<"i","n","f","l","a","t","i","o","n">>, <<"f","i","s","c","a","l">>, <<"o","u","t","p","u","t"," ","g","a","p">>}

CallYears == {<<>>, <<"2","0","2","2">>, <<"2","0","2","3">>, <<"2","0","2","4">>}

CallTargets == {<<"3",".","2">>, <<"7",".","5">>, <<"1",".","3">>, <<"5">>, <<"n",".","a",".">>, <<"a","b","c">>}

InitResolve ==
    /\ pc = "call"
    /\ error = "none"
    /\ use_llm = FALSE
    /\ api_key_set = FALSE
    /\ claims = <<>>
    /\ tables = <<>>
    /\ graph = EmptyGraph
    /\ batch_size = DefaultBatchSize
    /\ batch_start = 0
    /\ all_resolutions = <<>>
    /\ batch_log = <<>>
    /\ llm_resolutions = <<>>
    /\ ci = 1
    /\ vi = 1
    /\ written = {}
    /\ call \in [table : CallTables, variable_hint : CallHints, year : CallYears,
                 target_value : CallTargets]
    /\ ret = NotFound
    /\ workers = NoWorkers

\* the call and its return
CallFind ==
    /\ pc = "call"
    /\ ret' = find_value_in_table(call.table, call.variable_hint, call.year,
                                  call.target_value)
    /\ pc' = "returned"
    /\ UNCHANGED <<workers, error, use_llm, api_key_set, claims, tables, graph, batch_size,
                   batch_start, all_resolutions, batch_log, llm_resolutions, ci, vi,
                   written, call>>

SpecResolve == InitResolve /\ [][CallFind]_vars

-----------------------------------------------------------------------------
(* resolve_claims_batch called on its own, with any batch_size *)

\* most claims in a direct call
MaxBatchClaims == 3

\* largest batch_size of a direct call
MaxBatchSize == 2

InitBatch ==
    /\ pc = "llm_client"
    /\ error = "none"
    /\ use_llm = TRUE
    /\ api_key_set \in BOOLEAN
    /\ claims \in SeqsUpTo(ClaimPool, MaxBatchClaims)
    /\ tables = <<TableT1>>
    /\ graph = EmptyGraph
    /\ batch_size \in 1..MaxBatchSize
    /\ batch_start = 0
    /\ all_resolutions = <<>>
    /\ batch_log = <<>>
    /\ llm_resolutions = <<>>
    /\ ci = 1
    /\ vi = 1
    /\ written = {}
    /\ call = NoCall
    /\ ret = NotFound
    /\ workers = NoWorkers

NextBatch ==
    \/ ClientCreated
    \/ ClientFails
    \/ BatchCallOk
    \/ BatchCallFail
    \/ BatchReturn

SpecBatch == InitBatch /\ [][NextBatch]_vars

-----------------------------------------------------------------------------
(* _numbers_match called on its own, with any tolerance *)

\* the literals and the tolerances (in thousandths) of the direct calls
MatchLiterals ==
    {<<"1",".","2">>, <<"1",".","3","5">>, <<"1",".","3">>, <<"3",".","0","0">>, <<"3",".","1","5">>, <<"3",".","1","6">>, <<"(","1",".","2",")">>, <<"-","1",".","2">>, <<" ","1",".","2"," ">>, <<"1","3","5","%">>,
     <<"1",",","0","0","0">>, <<"1",",","0","0","0",".","1","5">>, <<"a","b","c">>, <<>>, <<"n",".","a",".">>, <<".",".",".">>, <<"n","a","n">>, <<"i","n","f">>, <<"-","i","n","f">>}

MatchTolerances == {0, 150, 1000}

InitMatch ==
    /\ pc = "match_call"
    /\ error = "none"
    /\ use_llm = FALSE
    /\ api_key_set = FALSE
    /\ claims = <<>>
    /\ tables = <<>>
    /\ graph = EmptyGraph
    /\ batch_size = DefaultBatchSize
    /\ batch_start = 0
    /\ all_resolutions = <<>>
    /\ batch_log = <<>>
    /\ llm_resolutions = <<>>
    /\ ci = 1
    /\ vi = 1
    /\ written = {}
    /\ call \in [a : MatchLiterals, b : MatchLiterals, tolerance : MatchTolerances]
    /\ ret = [match |-> FALSE]
    /\ workers = NoWorkers

\* the call and its return
CallMatch ==
    /\ pc = "match_call"
    /\ ret' = [match |-> numbers_match_within(call.a, call.b, call.tolerance)]
    /\ pc' = "match_returned"
    /\ UNCHANGED <<workers, error, use_llm, api_key_set, claims, tables, graph, batch_size,
                   batch_start, all_resolutions, batch_log, llm_resolutions, ci, vi,
                   written, call>>

SpecMatch == InitMatch /\ [][CallMatch]_vars

-----------------------------------------------------------------------------
(* _check_cross_table_consistency called on its own *)

\* the rows a table of the direct calls may hold
CrossData ==
    {<<Row(<<"F","i","s","c","a","l"," ","b","a","l","a","n","c","e">>, <<Col(<<"2","0","2","3">>, <<"1",".","2">>)>>)>>,
     <<Row(<<"F","i","s","c","a","l"," ","b","a","l","a","n","c","e"," ","1","/">>, <<Col(<<"2","0","2","3","_","P","r","o","j",".">>, <<"1",".","3">>), Col(<<"2","0","2","3">>, <<"1",".","5">>)>>)>>,
     <<Row(<<"f","i","s","c","a","l"," ","b","a","l","a","n","c","e"," ","(","p","e","r","c","e","n","t"," ","o","f"," ","G","D","P",")">>, <<Col(<<"2","0","2","3">>, <<"1",".","3","5">>), Col(<<"2","0","2","2">>, <<"0",".","9">>)>>)>>,
     <<Row(<<"F","i","s","c","a","l"," "," ","b","a","l","a","n","c","e">>, <<Col(<<"2","0","2","3">>, <<"n",".","a",".">>), Col(<<"2","0","2","2">>, <<"n","a","n">>)>>)>>,
     <<Row(<<"F","i","s","c","a","l"," ","b","a","l","a","n","c","e">>, <<Col(<<"2","0","2","3">>, <<"1",".","5">>), Col(<<"2","0","2","2">>, <<"0",".","9">>)>>),
       Row(<<"F","i","s","c","a","l"," ","b","a","l","a","n","c","e"," ","2","/">>, <<Col(<<"2","0","2","3">>, <<"1",".","2">>), Col(<<"M","e","m","o","r","a","n","d","u","m">>, <<"1",".","0">>)>>)>>,
     <<Row(<<"D","e","b","t">>, <<Col(<<"2","0","2","3">>, <<"4","0">>)>>)>>}

\* most tables of a direct call
MaxCrossTables == 3

\* the tables dict of a call: table ids T1, T2, ... in insertion order
CrossTable(i, data) == [table_id |-> <<"T">> \o NatStr(i), table_title |-> <<"T","a","b","l","e">>, data |-> data]

CrossInputs ==
    UNION {{[i \in 1..n |-> CrossTable(i, f[i])] : f \in [1..n -> CrossData]} :
               n \in 0..MaxCrossTables}

InitCross ==
    /\ pc = "cross_call"
    /\ error = "none"
    /\ use_llm = FALSE
    /\ api_key_set = FALSE
    /\ claims = <<>>
    /\ tables \in CrossInputs
    /\ graph = EmptyGraph
    /\ batch_size = DefaultBatchSize
    /\ batch_start = 0
    /\ all_resolutions = <<>>
    /\ batch_log = <<>>
    /\ llm_resolutions = <<>>
    /\ ci = 1
    /\ vi = 1
    /\ written = {}
    /\ call = NoCall
    /\ ret = NotFound
    /\ workers = NoWorkers

\* the call and its return, the results held as graph.cross_table_checks
CallCross ==
    /\ pc = "cross_call"
    /\ graph' = [graph EXCEPT !.cross_table_checks = check_cross_table_consistency(tables)]
    /\ pc' = "cross_returned"
    /\ UNCHANGED <<workers, error, use_llm, api_key_set, claims, tables, batch_size, batch_start,
                   all_resolutions, batch_log, llm_resolutions, ci, vi, written, call, ret>>

SpecCross == InitCross /\ [][CallCross]_vars

-----------------------------------------------------------------------------
(* The claim loop of build_graph run by concurrent workers, one claim each, *)
(* with the cross-table pass running beside them.  A worker makes the graph *)
(* writes of its claim's iteration in program order; a write, with the      *)
(* dedup check that guards it, is one atomic step.                          *)

\* the records a list has gained, as writes of one kind
Appended(kind, before, after) ==
    [k \in 1..(Len(after) - Len(before)) |-> [kind |-> kind, item |-> after[Len(before) + k]]]

\* the graph writes that take g to h: add_node, then add_edge, then verifications.append
Writes(g, h) ==
    Appended("node", g.nodes, h.nodes) \o Appended("edge", g.edges, h.edges)
    \o Appended("verification", g.verifications, h.verifications)

\* the writes of one iteration of "for val in values"
MentionWrites(g, claim_id, val, llm_resolution, likely_table, tabs) ==
    IF Skipped(val) THEN <<>>
    ELSE Writes(g, MentionVariable(g, claim_id, val))
         \o Writes(g, Verify(g, claim_id, val,
                             LlmMatchFor(llm_resolution, val.variable, val.value),
                             likely_table, tabs))

RECURSIVE ValueWrites(_, _, _, _, _, _, _)
ValueWrites(g, claim_id, vals, k, llm_resolution, likely_table, tabs) ==
    IF k > Len(vals) THEN <<>>
    ELSE MentionWrites(g, claim_id, vals[k], llm_resolution, likely_table, tabs)
         \o ValueWrites(g, claim_id, vals, k + 1, llm_resolution, likely_table, tabs)

\* the writes of one iteration of "for i, claim in enumerate(claims)", from the
\* graph g that holds the table nodes
ClaimWrites(g, i, claim, resolutions, tabs) ==
    Writes(g, claim_head(g, i, claim, tabs))
    \o ValueWrites(g, ClaimId(i), claim.values_mentioned, 1,
                   LlmGet(resolutions, ClaimId(i)), claim.likely_table, tabs)

\* ApplyWrite without the "if not any(n.id == ... for n in graph.nodes)" check
ApplyWriteUnchecked(g, w) ==
    IF w.kind = "node" THEN add_node(g, w.item)
    ELSE IF w.kind = "edge" THEN add_edge(g, w.item)
    ELSE add_verification(g, w.item)

\* one write: a variable or cell node is appended only if its id is not in the
\* graph yet, check and append in one step; every other record is appended
ApplyWrite(g, w) ==
    IF w.kind = "node"
    THEN (IF w.item.type \in {"variable", "cell"} /\ HasNode(g, w.item.id) THEN g
          ELSE add_node(g, w.item))
    ELSE IF w.kind = "edge" THEN add_edge(g, w.item)
    ELSE add_verification(g, w.item)

\* the value loop of one claim on one thread
RECURSIVE SequentialValues(_, _, _, _, _, _, _)
SequentialValues(g, claim_id, vals, k, llm_resolution, likely_table, tabs) ==
    IF k > Len(vals) THEN g
    ELSE SequentialValues(
             process_value(g, claim_id, vals[k], llm_resolution, likely_table, tabs),
             claim_id, vals, k + 1, llm_resolution, likely_table, tabs)

\* the claim loop on one thread
RECURSIVE SequentialClaims(_, _, _, _, _)
SequentialClaims(g, i, cs, resolutions, tabs) ==
    IF i > Len(cs) THEN g
    ELSE SequentialClaims(
             SequentialValues(claim_head(g, i, cs[i], tabs), ClaimId(i),
                              cs[i].values_mentioned, 1, LlmGet(resolutions, ClaimId(i)),
                              cs[i].likely_table, tabs),
             i + 1, cs, resolutions, tabs)

\* the graph build_graph returns on one thread: table nodes, claim loop, cross-table pass
SequentialGraph(cs, tabs, resolutions) ==
    [SequentialClaims(AddTableNodes(EmptyGraph, tabs), 1, cs, resolutions, tabs)
        EXCEPT !.cross_table_checks = check_cross_table_consistency(tabs)]

\* most concurrent workers (claims)
MaxWorkers == 2

\* an answer for the first numeric claim only: MATCH at LlmCell, the table value
\* reported as the claim's own (rounded) value
EchoFirst(batch) ==
    IF batch = <<>> THEN <<>>
    ELSE << [claim_id |-> ClaimId(batch[1].idx),
             matches |-> [j \in 1..Len(batch[1].claim.values_mentioned) |->
                CellMatch(batch[1].claim.values_mentioned[j].variable,
                          batch[1].claim.values_mentioned[j].value,
                          batch[1].claim.values_mentioned[j].year,
                          LlmCell.table_id, LlmCell.row_label, LlmCell.col_label,
                          batch[1].claim.values_mentioned[j].value, "MATCH", <<"r","o","u","n","d","e","d">>)]] >>

\* llm_resolutions: none, every value matched at LlmCell, or EchoFirst
WorkerResolutions(cs) ==
    {<<>>, Reply("match", numeric_claims(cs)), EchoFirst(numeric_claims(cs))}

\* the tables every worker reads, and the result of the cross-table pass over them
WorkerTables == <<TableT1, TableT2>>

WorkerCrossChecks == check_cross_table_consistency(WorkerTables)

InitWorkers ==
    /\ pc = "workers"
    /\ error = "none"
    /\ claims \in SeqsUpTo(ClaimPool, MaxWorkers)
    /\ llm_resolutions \in WorkerResolutions(claims)
    /\ use_llm = (llm_resolutions # <<>>)
    /\ api_key_set = use_llm
    /\ tables = WorkerTables
    /\ graph = AddTableNodes(EmptyGraph, tables)
    /\ batch_size = DefaultBatchSize
    /\ batch_start = 0
    /\ all_resolutions = <<>>
    /\ batch_log = <<>>
    /\ ci = 1
    /\ vi = 1
    /\ written = {}
    /\ call = NoCall
    /\ ret = [graph |-> SequentialGraph(claims, tables, llm_resolutions)]
    /\ workers = [writes |-> [i \in 1..Len(claims) |->
                                 ClaimWrites(graph, i, claims[i], llm_resolutions, tables)],
                  done |-> [i \in 1..Len(claims) |-> 0],
                  cross |-> FALSE]

\* some worker makes the next graph write of its claim
WorkerWrite ==
    /\ pc = "workers"
    /\ \E i \in 1..Len(workers.writes) :
          /\ workers.done[i] < Len(workers.writes[i])
          /\ graph' = ApplyWrite(graph, workers.writes[i][workers.done[i] + 1])
          /\ workers' = [workers EXCEPT !.done[i] = @ + 1]
    /\ UNCHANGED <<pc, error, use_llm, api_key_set, claims, tables, batch_size, batch_start,
                   all_resolutions, batch_log, llm_resolutions, ci, vi, written, call, ret>>

\* the cross-table pass, which reads the tables (WorkerTables throughout) only
CrossPass ==
    /\ pc = "workers"
    /\ ~workers.cross
    /\ graph' = [graph EXCEPT !.cross_table_checks = WorkerCrossChecks]
    /\ workers' = [workers EXCEPT !.cross = TRUE]
    /\ UNCHANGED <<pc, error, use_llm, api_key_set, claims, tables, batch_size, batch_start,
                   all_resolutions, batch_log, llm_resolutions, ci, vi, written, call, ret>>

\* every worker and the cross-table pass have finished: the graph is returned
Join ==
    /\ pc = "workers"
    /\ workers.cross
    /\ \A i \in 1..Len(workers.writes) : workers.done[i] = Len(workers.writes[i])
    /\ pc' = "joined"
    /\ UNCHANGED <<error, use_llm, api_key_set, claims, tables, graph, batch_size,
                   batch_start, all_resolutions, batch_log, llm_resolutions, ci, vi,
                   written, call, ret, workers>>

NextWorkers ==
    \/ WorkerWrite
    \/ CrossPass
    \/ Join

SpecWorkers == InitWorkers /\ [][NextWorkers]_vars

-----------------------------------------------------------------------------
(* build_graph over a tables directory whose files carry any table_id *)

\* table ids a table file may carry (its table_id field, or else its file stem)
OddTableIds ==
    {<<"c","l","a","i","m","_","0">>, <<"c","l","a","i","m","_","1">>, <<"v","a","r","_","r","e","a","l","_","g","d","p">>, <<"c","e","l","l","_","T","1","_","R","e","a","l","_","G","D","P","_","g","r","o","w","t","h","_","2","0","2","3">>, <<"T","1","x">>, <<"u","n","k","n","o","w","n">>}

OddTable(table_id) ==
    [table_id |-> table_id, table_title |-> <<"O","t","h","e","r">>,
     data |-> << Row(<<"D","e","b","t">>, <<Col(<<"2","0","2","3">>, <<"4","0">>)>>),
                 Row(<<"D","e","b","t"," ","r","a","t","i","o">>, <<Col(<<"2","0","2","3">>, <<"4","5">>)>>),
                 Row(<<"D","e","b","t","_","r","a","t","i","o">>, <<Col(<<"2","0","2","3">>, <<"5","0">>)>>) >>]

\* a claim with no table hint whose value the other table holds
ClaimDebt ==
    [claim_text |-> <<"D","e","b","t"," ","r","e","a","c","h","e","d"," ","4","0"," ","p","e","r","c","e","n","t">>, likely_table |-> <<"u","n","k","n","o","w","n">>,
     values_mentioned |-> <<Mention(<<"d","e","b","t">>, <<"4","0">>, <<"2","0","2","3">>)>>]

\* a claim whose two values lie in two rows of the other table
ClaimRatios ==
    [claim_text |-> <<"T","h","e"," ","d","e","b","t"," ","r","a","t","i","o"," ","r","o","s","e"," ","f","r","o","m"," ","4","5"," ","t","o"," ","5","0">>, likely_table |-> <<"T","1","x">>,
     values_mentioned |-> <<Mention(<<"d","e","b","t">>, <<"4","5">>, <<"2","0","2","3">>), Mention(<<"d","e","b","t">>, <<"5","0">>, <<"2","0","2","3">>)>>]

\* the claims and both table files are loaded
InitIds ==
    /\ pc = "load_tables"
    /\ error = "none"
    /\ use_llm = FALSE
    /\ api_key_set = FALSE
    /\ claims \in SeqsUpTo(ClaimPool \cup {ClaimDebt, ClaimRatios}, MaxClaims)
    /\ tables \in {<<TableT1, OddTable(table_id)>> : table_id \in OddTableIds}
    /\ graph = EmptyGraph
    /\ batch_size = DefaultBatchSize
    /\ batch_start = 0
    /\ all_resolutions = <<>>
    /\ batch_log = <<>>
    /\ llm_resolutions = <<>>
    /\ ci = 1
    /\ vi = 1
    /\ written = {}
    /\ call = NoCall
    /\ ret = NotFound
    /\ workers = NoWorkers

NextIds ==
    \/ TablesLoaded
    \/ ClaimStep
    \/ ValueStep
    \/ CrossTableStep
    \/ WriteOutputs

SpecIds == InitIds /\ [][NextIds]_vars

-----------------------------------------------------------------------------
(* _normalize_number called on its own *)

\* the strings of the direct calls: a core between a prefix and a suffix
ParseCores ==
    {<<"1",".","2">>, <<"1",",","0","0","0">>, <<"1","2">>, <<".","5">>, <<"5",".">>, <<"1",".","2",".","3">>, <<"1"," ","0">>, <<"a","b","c">>, <<"n","a","n">>, <<"i","n","f">>, <<"I","n","f","i","n","i","t","y">>,
     <<"n",".","a",".">>, <<"n","/","a">>, <<".",".",".">>, <<EmDash>>, <<>>}

ParsePrefixes == {<<>>, <<" ">>, <<"(">>, <<"-">>}

ParseSuffixes == {<<>>, <<"%">>, <<")">>, <<" ">>}

ParseLiterals == {p \o c \o x : p \in ParsePrefixes, c \in ParseCores, x \in ParseSuffixes}

InitParse ==
    /\ pc = "parse_call"
    /\ error = "none"
    /\ use_llm = FALSE
    /\ api_key_set = FALSE
    /\ claims = <<>>
    /\ tables = <<>>
    /\ graph = EmptyGraph
    /\ batch_size = DefaultBatchSize
    /\ batch_start = 0
    /\ all_resolutions = <<>>
    /\ batch_log = <<>>
    /\ llm_resolutions = <<>>
    /\ ci = 1
    /\ vi = 1
    /\ written = {}
    /\ call \in [s : ParseLiterals]
    /\ ret = [value |-> <<>>]
    /\ workers = NoWorkers

\* the call and its return: None (<<>>) or a float; the ValueError of float()
\* is caught inside
CallParse ==
    /\ pc = "parse_call"
    /\ ret' = [value |-> normalize_number(call.s)]
    /\ pc' = "parse_returned"
    /\ UNCHANGED <<workers, error, use_llm, api_key_set, claims, tables, graph, batch_size,
                   batch_start, all_resolutions, batch_log, llm_resolutions, ci, vi,
                   written, call>>

SpecParse == InitParse /\ [][CallParse]_vars

-----------------------------------------------------------------------------
(* Properties *)

\* the entries of sequence t beyond those of sequence s
Beyond(s, t) == SubSeq(t, Len(s) + 1, Len(t))

\* s is an initial part of t
IsPrefix(s, t) == Len(s) <= Len(t) /\ SubSeq(t, 1, Len(s)) = s

\* the verification results recorded for claim_id
ResultsOf(g, claim_id) == SelectSeq(g.verifications, LAMBDA v : v.claim_id = claim_id)

\* C1: every step of the value loop handles one mention, appends at most one
\* verification result for it (from the alternate resolver, from the
\* deterministic lookup, or UNVERIFIABLE), leaves the earlier results as they
\* are and moves on to the next mention or claim; no other step records a
\* result for a mention.
C1_AtMostOneResultPerMention ==
    [][/\ IsPrefix(graph.verifications, graph'.verifications)
       /\ pc = "value" =>
             /\ Len(graph'.verifications) <= Len(graph.verifications) + 1
             /\ \A k \in 1..Len(Beyond(graph.verifications, graph'.verifications)) :
                    /\ Beyond(graph.verifications, graph'.verifications)[k].claim_id = ClaimId(ci)
                    /\ Beyond(graph.verifications, graph'.verifications)[k].status
                           \in {"MATCH", "MISMATCH", "UNVERIFIABLE"}
             /\ \/ ci' = ci /\ vi' = vi + 1 /\ pc' = "value"
                \/ ci' = ci + 1 /\ vi = Len(claims[ci].values_mentioned) /\ pc' = "claim"
       /\ pc # "value" =>
             \A k \in 1..Len(Beyond(graph.verifications, graph'.verifications)) :
                 Beyond(graph.verifications, graph'.verifications)[k].status = "QUALITATIVE"
      ]_vars

\* a finished run in which a claim of two mentions has one result from the
\* alternate resolver and one UNVERIFIABLE from the deterministic path
C1_Witness ==
    /\ pc = "built"
    /\ \E i \in 1..Len(claims) :
           /\ Len(claims[i].values_mentioned) = 2
           /\ Len(ResultsOf(graph, ClaimId(i))) = 2
           /\ ResultsOf(graph, ClaimId(i))[1].resolution_method = "llm"
           /\ ResultsOf(graph, ClaimId(i))[2].status = "UNVERIFIABLE"

\* the position of the claim loop is past claim i
Processed(i) == pc \in {"claim", "value", "built", "done"} /\ i < ci

\* C2: a claim with no value mentions gets exactly one verification result, of
\* status QUALITATIVE; the step that processes it adds only the claim node and
\* at most a references edge (no variable or cell node, no mentions_variable,
\* contains_cell or verified_by edge), and no later step adds a result or an
\* edge of those types for it.
C2_QualitativeClaim ==
    /\ [](\A i \in 1..Len(claims) :
            claims[i].values_mentioned = <<>> =>
               /\ Len(ResultsOf(graph, ClaimId(i))) = (IF Processed(i) THEN 1 ELSE 0)
               /\ \A k \in 1..Len(ResultsOf(graph, ClaimId(i))) :
                      ResultsOf(graph, ClaimId(i))[k].status = "QUALITATIVE"
               /\ \A k \in 1..Len(graph.edges) :
                      graph.edges[k].source = ClaimId(i) => graph.edges[k].type = "references")
    /\ [][(pc = "claim" /\ ci <= Len(claims) /\ claims[ci].values_mentioned = <<>>) =>
             /\ Len(graph'.nodes) = Len(graph.nodes) + 1
             /\ IsPrefix(graph.nodes, graph'.nodes)
             /\ graph'.nodes[Len(graph'.nodes)].type = "claim"
             /\ IsPrefix(graph.edges, graph'.edges)
             /\ \A k \in 1..Len(Beyond(graph.edges, graph'.edges)) :
                    Beyond(graph.edges, graph'.edges)[k].type = "references"
             /\ pc' = "claim" /\ ci' = ci + 1
          ]_vars

\* a finished run whose first claim has no value mentions and one QUALITATIVE result
C2_Witness ==
    /\ pc = "built"
    /\ Len(claims) = 2
    /\ claims[1].values_mentioned = <<>>
    /\ claims[2].values_mentioned # <<>>
    /\ Len(ResultsOf(graph, ClaimId(1))) = 1
    /\ ResultsOf(graph, ClaimId(1))[1].status = "QUALITATIVE"
    /\ Len(graph.verifications) > 1

\* positions of the nodes with this id
NodesWithId(g, id) == {k \in 1..Len(g.nodes) : g.nodes[k].id = id}

\* the (table, row, column) triple a cell node stands for
CellKey(n) == <<n.metadata.table_id, n.metadata.row, n.metadata.col>>

\* positions of the verified_by edges
VerifiedByEdges(g) == {k \in 1..Len(g.edges) : g.edges[k].type = "verified_by"}

\* positions of the results that carry a cell of a loaded table
ResolvedResults(g, tabs) ==
    {k \in 1..Len(g.verifications) :
        /\ g.verifications[k].status \in {"MATCH", "MISMATCH"}
        /\ InTables(tabs, g.verifications[k].table_id)}

CallRows == 1..Len(call.table.data)

CallCols(i) == 1..Len(call.table.data[i].cols)

CallRelevantRows ==
    {i \in CallRows : RowRelevant(call.table.data[i].label,
                                  variable_keywords(Lower(call.variable_hint)))}

CallMatches(i, c) == numbers_match(call.target_value, call.table.data[i].cols[c].val)

CallOfYear(i, c) == extract_year_from_col(call.table.data[i].cols[c].col) = call.year

CallYearCells ==
    UNION {{<<i, c>> : c \in {d \in CallCols(i) : CallOfYear(i, d) /\ CallMatches(i, d)}} :
              i \in CallRows}

\* the first of a set of cells in row order, then column order
Earliest(ps) ==
    CHOOSE p \in ps : \A q \in ps : p[1] < q[1] \/ (p[1] = q[1] /\ p[2] <= q[2])

CallCell(p) == Cell(call.table.data[p[1]], p[2])

\* C4: with a year given, when some keyword-relevant row has a column of that
\* year whose value matches the target, the cell returned lies in a column of
\* that year (a column of another year is returned only when no
\* keyword-relevant row has such a column).
C4_YearPreferredAcrossRelevantRows ==
    (/\ pc = "returned"
     /\ call.year # <<>>
     /\ \E i \in CallRelevantRows : \E c \in CallCols(i) : CallOfYear(i, c) /\ CallMatches(i, c))
    => (ret.found /\ extract_year_from_col(ret.col) = call.year)

\* C5: when no keyword-relevant row has a matching column, the call returns
\* the first cell, in row order then column order over all rows, whose column
\* is of the given year and whose value matches the target; it returns None
\* when there is no such cell or no year was given.
C5_PassTwoAndMiss ==
    (/\ pc = "returned"
     /\ \A i \in CallRelevantRows : \A c \in CallCols(i) : ~CallMatches(i, c))
    => ret = (IF call.year # <<>> /\ CallYearCells # {}
              THEN CallCell(Earliest(CallYearCells))
              ELSE NotFound)

\* a call that pass 2 answered from a row that is not keyword-relevant
C5_Witness ==
    /\ pc = "returned"
    /\ \A i \in CallRelevantRows : \A c \in CallCols(i) : ~CallMatches(i, c)
    /\ ret.found
    /\ \E i \in CallRows \ CallRelevantRows : call.table.data[i].label = ret.row
    /\ \E p \in CallYearCells : p # Earliest(CallYearCells)

\* Of the mention the value loop is at: the mention, the entries of the
\* alternate resolver's answer for its claim, those for its (variable, value)
\* and those with its value literal
CurMention == claims[ci].values_mentioned[vi]

CurEntries ==
    IF LlmGet(llm_resolutions, ClaimId(ci)) = <<>> THEN <<>>
    ELSE LlmGet(llm_resolutions, ClaimId(ci))[1].matches

ExactEntries ==
    {k \in 1..Len(CurEntries) : /\ CurEntries[k].variable = CurMention.variable
                                /\ CurEntries[k].claim_value = CurMention.value}

ValueEntries == {k \in 1..Len(CurEntries) : CurEntries[k].claim_value = CurMention.value}

Least(S) == CHOOSE k \in S : \A j \in S : k <= j

\* the graph the step gives when no alternate resolver is configured
DeterministicStep ==
    process_value(graph, ClaimId(ci), CurMention, <<>>, claims[ci].likely_table, tables)

\* the alternate resolver gave no definite answer for the mention: no answer for
\* its claim, no entry with its value literal, or a selected entry (the first
\* for its (variable, value), else the first with its value literal) NOT_FOUND
NoDefiniteAnswer ==
    \/ ValueEntries = {}
    \/ /\ ExactEntries # {}
       /\ CurEntries[Least(ExactEntries)].match_status = "NOT_FOUND"
    \/ /\ ExactEntries = {}
       /\ CurEntries[Least(ValueEntries)].match_status = "NOT_FOUND"

\* C6 as stated: a mention for which the answer has no entry for its
\* (variable, value), or has such an entry with status NOT_FOUND, is resolved
\* by the deterministic path alone.
C6_NoExactEntryFallsThrough ==
    [][(/\ pc = "value"
        /\ use_llm
        /\ \/ ExactEntries = {}
           \/ \E k \in ExactEntries : CurEntries[k].match_status = "NOT_FOUND")
       => graph' = DeterministicStep]_vars

\* C6 (amended): a mention is resolved by the deterministic path alone, its
\* result being the one a run without alternate resolver records, when the
\* answer for its claim is absent or has no entry with the mention's value
\* literal, or when the entry selected for it (the first entry for its
\* (variable, value), else the first entry with its value literal) has status
\* NOT_FOUND.
C6_SelectedEntryFallsThrough ==
    [][(/\ pc = "value"
        /\ use_llm
        /\ NoDefiniteAnswer)
       => /\ graph' = DeterministicStep
          /\ \A k \in 1..Len(Beyond(graph.verifications, graph'.verifications)) :
                 Beyond(graph.verifications, graph'.verifications)[k].resolution_method
                     = "deterministic"]_vars

\* a finished run in which the alternate resolver answered NOT_FOUND for a
\* mention that the deterministic path then matched
C6_Witness ==
    /\ pc = "built"
    /\ use_llm
    /\ \E i \in 1..Len(claims) :
           /\ LlmGet(llm_resolutions, ClaimId(i)) # <<>>
           /\ LlmGet(llm_resolutions, ClaimId(i))[1].matches # <<>>
           /\ LlmGet(llm_resolutions, ClaimId(i))[1].matches[1].match_status = "NOT_FOUND"
           /\ ResultsOf(graph, ClaimId(i)) # <<>>
           /\ ResultsOf(graph, ClaimId(i))[1].resolution_method = "deterministic"
           /\ ResultsOf(graph, ClaimId(i))[1].status = "MATCH"

\* the errors main and build_graph raise for missing or unreadable input files
InputErrors ==
    {"input_dir missing", "claims file missing", "tables dir missing",
     "claims file unreadable", "table file unreadable"}

\* C7: on readable, parseable input the run never stops short of its outputs,
\* with or without the alternate resolver and whichever of its calls fail: a
\* run stops early only for a missing or unreadable input file.
C7_OnlyInputErrorsStopTheRun ==
    pc \in {"aborted", "exited"} => error \in InputErrors

\* the resolutions appended for the k-th batch attempted, given those that follow
BatchResults(k) ==
    SubSeq(all_resolutions, Len(batch_log[k].before) + 1,
           IF k < Len(batch_log) THEN Len(batch_log[k + 1].before) ELSE Len(all_resolutions))

\* the NOT_FOUND match of mention v carrying the failure reason
IsFailureMatch(m, v, reason) ==
    /\ m.match_status = "NOT_FOUND"
    /\ m.variable = v.variable
    /\ m.claim_value = v.value
    /\ m.year = v.year
    /\ m.table_id = NoneStr
    /\ EndsWith(m.reasoning, reason)

\* C8: a failed batch call is caught at its batch: each claim of the batch gets
\* a resolution with one NOT_FOUND match per value mention carrying the failure
\* reason, the results of earlier batches stay, the following batches are
\* attempted, and the function returns without raising.
C8_FailedBatchIsContained ==
    /\ \A k \in 1..Len(batch_log) :
           /\ IsPrefix(batch_log[k].before, all_resolutions)
           /\ batch_log[k].start = (k - 1) * batch_size
           /\ batch_log[k].failed =>
                 /\ Len(BatchResults(k))
                        = Len(BatchAt(claims, batch_log[k].start, batch_size))
                 /\ \A j \in 1..Len(BatchResults(k)) :
                        /\ BatchResults(k)[j].claim_id
                               = ClaimId(BatchAt(claims, batch_log[k].start, batch_size)[j].idx)
                        /\ Len(BatchResults(k)[j].matches)
                               = Len(BatchAt(claims, batch_log[k].start,
                                             batch_size)[j].claim.values_mentioned)
                        /\ \A m \in 1..Len(BatchResults(k)[j].matches) :
                               IsFailureMatch(
                                   BatchResults(k)[j].matches[m],
                                   BatchAt(claims, batch_log[k].start,
                                           batch_size)[j].claim.values_mentioned[m],
                                   batch_log[k].reason)
    /\ pc = "batch_returned" =>
           Len(batch_log) * batch_size >= Len(numeric_claims(claims))
    /\ pc = "aborted" => batch_log = <<>>

\* a call that returned after three batches, the second of which failed
C8_Witness ==
    /\ pc = "batch_returned"
    /\ Len(batch_log) = 3
    /\ ~batch_log[1].failed
    /\ batch_log[2].before # <<>>
    /\ batch_log[2].failed
    /\ ~batch_log[3].failed
    /\ Len(all_resolutions) > Len(batch_log[3].before)

\* C9: when the claims file or a table file cannot be read or parsed the run
\* stops before graph construction: the graph has no node, edge or
\* verification, and nothing is written.
C9_NothingBuiltOnUnreadableInput ==
    (pc = "aborted" /\ error \in {"claims file unreadable", "table file unreadable"})
    => (graph = EmptyGraph /\ written = {})

\* a run stopped by an unreadable table file after claims and a table were loaded
C9_Witness ==
    /\ pc = "aborted"
    /\ error = "table file unreadable"
    /\ claims # <<>>
    /\ tables # <<>>
    /\ graph = EmptyGraph

\* no loaded table yields a cell for the mention the value loop is at
NoTableYieldsCell ==
    \A k \in 1..Len(tables) :
        ~find_value_in_table(tables[k], CurMention.variable, YearArg(CurMention.year),
                             CurMention.value).found

\* the step records exactly one result, UNVERIFIABLE, for the mention, adds no
\* cell node and no verified_by edge, and the loops go on
RecordsUnverifiable ==
    /\ Len(graph'.verifications) = Len(graph.verifications) + 1
    /\ IsPrefix(graph.verifications, graph'.verifications)
    /\ graph'.verifications[Len(graph'.verifications)].status = "UNVERIFIABLE"
    /\ graph'.verifications[Len(graph'.verifications)].claim_id = ClaimId(ci)
    /\ graph'.verifications[Len(graph'.verifications)].claim_value = CurMention.value
    /\ \A k \in 1..Len(Beyond(graph.nodes, graph'.nodes)) :
           Beyond(graph.nodes, graph'.nodes)[k].type # "cell"
    /\ \A k \in 1..Len(Beyond(graph.edges, graph'.edges)) :
           Beyond(graph.edges, graph'.edges)[k].type # "verified_by"
    /\ pc' \in {"value", "claim"}
    /\ error' = "none"

\* C10 as stated: a mention for which no table yields a cell is recorded as
\* exactly one UNVERIFIABLE result, without cell node or verified_by edge, and
\* processing continues.
C10_MissIsUnverifiable ==
    [][(pc = "value" /\ NoTableYieldsCell) => RecordsUnverifiable]_vars

\* C10 (amended): a mention whose value is neither empty nor "unknown", for
\* which the alternate resolver gave no definite answer (or none is
\* configured) and for which no table yields a cell, is recorded as exactly
\* one UNVERIFIABLE result, without cell node or verified_by edge, and
\* processing continues.
C10_ProcessedMissIsUnverifiable ==
    [][(/\ pc = "value"
        /\ ~Skipped(CurMention)
        /\ NoDefiniteAnswer
        /\ NoTableYieldsCell) => RecordsUnverifiable]_vars

\* a finished run with an UNVERIFIABLE result for a literal that is no number,
\* followed by the results of a later claim
C10_Witness ==
    /\ pc = "built"
    /\ \E k \in 1..Len(graph.verifications) :
           /\ graph.verifications[k].status = "UNVERIFIABLE"
           /\ graph.verifications[k].claim_value = <<"a","b","c">>
           /\ k < Len(graph.verifications)
           /\ graph.verifications[k + 1].claim_id # graph.verifications[k].claim_id

-----------------------------------------------------------------------------
(* Cross-table results *)

CrossResults == graph.cross_table_checks

TableIdsOf(r) == {r.entries[k].table_id : k \in 1..Len(r.entries)}

\* the tables holding a row whose normalized name is norm_name
TablesNaming(norm_name) ==
    {tables[i].table_id : i \in {j \in 1..Len(tables) :
        \E k \in 1..Len(tables[j].data) :
            normalize_row_name(tables[j].data[k].label) = norm_name}}

\* C11: every CrossTableResult comes from a group of rows spanning at least two
\* distinct tables: its entries name at least two different table ids, and a
\* normalized name found in one table only yields no result.
C11_ResultsSpanTwoTables ==
    pc \in {"cross_returned", "built", "done"} =>
        \A k \in 1..Len(CrossResults) :
            /\ Cardinality(TableIdsOf(CrossResults[k])) >= 2
            /\ Cardinality(TablesNaming(CrossResults[k].variable)) >= 2

\* the row labelled row of table table_id, as a sequence of columns (<<>> if absent)
ColsOf(table_id, row) ==
    IF \E i \in 1..Len(tables) : tables[i].table_id = table_id
                                  /\ \E k \in 1..Len(tables[i].data) : tables[i].data[k].label = row
    THEN (CHOOSE r \in {tables[i].data[k] :
                          i \in {j \in 1..Len(tables) : tables[j].table_id = table_id},
                          k \in 1..Len(TableById(tables, table_id).data)} : r.label = row).cols
    ELSE <<>>

\* entry e is the first column of its row whose extracted year is year
FirstColumnOfYear(e, year) ==
    \E c \in 1..Len(ColsOf(e.table_id, e.row)) :
        /\ ColsOf(e.table_id, e.row)[c].col = e.col
        /\ ColsOf(e.table_id, e.row)[c].val = e.value
        /\ extract_year_from_col(e.col) = year
        /\ \A b \in 1..(c - 1) : extract_year_from_col(ColsOf(e.table_id, e.row)[b].col) # year

EntriesAreFirstColumns ==
    \A k \in 1..Len(CrossResults) : \A j \in 1..Len(CrossResults[k].entries) :
        FirstColumnOfYear(CrossResults[k].entries[j], CrossResults[k].year)

\* C12: in every CrossTableResult each table contributes exactly one value: no
\* two entries have the same table id, and each entry is the first column of
\* its table's row whose extracted year equals the result's year.
C12_OneValuePerTable ==
    pc \in {"cross_returned", "built", "done"} =>
        /\ \A k \in 1..Len(CrossResults) :
               Cardinality(TableIdsOf(CrossResults[k])) = Len(CrossResults[k].entries)
        /\ EntriesAreFirstColumns

\* |parse(a) - parse(b)| <= 0.15 on the decimal values, the boundary included
WithinDecimalTolerance(a, b) ==
    /\ normalize_number(a) # <<>> /\ normalize_number(b) # <<>>
    /\ Abs(normalize_number(a)[1]) < Infinity /\ Abs(normalize_number(b)[1]) < Infinity
    /\ Abs(normalize_number(a)[1] - normalize_number(b)[1]) <= Tolerance

AllWithinOfFirst(entries) ==
    \A j \in 1..Len(entries) : WithinDecimalTolerance(entries[j].value, entries[1].value)

\* C13: a CrossTableResult is CONSISTENT exactly when every value of its
\* entries list is within 0.15 (absolute, inclusive) of the first value of the
\* list, and INCONSISTENT otherwise.
C13_ConsistentIffAllNearFirst ==
    pc \in {"cross_returned", "built", "done"} =>
        \A k \in 1..Len(CrossResults) :
            /\ CrossResults[k].status \in {"CONSISTENT", "INCONSISTENT"}
            /\ CrossResults[k].status = "CONSISTENT" <=> AllWithinOfFirst(CrossResults[k].entries)

\* the rows of the tables as (table index, row index) pairs
RowPositions == UNION {{<<i, k>> : k \in 1..Len(tables[i].data)} : i \in 1..Len(tables)}

RowAt(p) == tables[p[1]].data[p[2]]

\* the columns of a row whose extracted year is year
YearColumns(row, year) ==
    {c \in 1..Len(row.cols) : extract_year_from_col(row.cols[c].col) = year}

\* the value collected from a row for a year: that of its first column of the year
CollectedValue(row, year) == row.cols[Least(YearColumns(row, year))].val

\* the rows of a normalized name whose collected value for the year is a number
ParseableRows(norm_name, year) ==
    {p \in RowPositions :
        /\ normalize_row_name(RowAt(p).label) = norm_name
        /\ YearColumns(RowAt(p), year) # {}
        /\ normalize_number(CollectedValue(RowAt(p), year)) # <<>>}

AllYears ==
    UNION {{extract_year_from_col(RowAt(p).cols[c].col) : c \in 1..Len(RowAt(p).cols)} :
               p \in RowPositions} \ {NoneStr}

AllNames == {normalize_row_name(RowAt(p).label) : p \in RowPositions} \ {NoneStr}

\* the (normalized name, year) pairs with at least two parseable collected values
EvaluatedPairs ==
    {q \in AllNames \X AllYears : Cardinality(ParseableRows(q[1], q[2])) >= 2}

-----------------------------------------------------------------------------
(* Concurrent workers *)

NodeSet(g) == {g.nodes[k] : k \in 1..Len(g.nodes)}

NodeIds(g) == {g.nodes[k].id : k \in 1..Len(g.nodes)}

\* the verification results of one claim, in the order they were appended
VerificationsOf(g, claim_id) == SelectSeq(g.verifications, LAMBDA v : v.claim_id = claim_id)

\* no two variable or cell nodes share an id
NoDuplicateVarOrCell(g) ==
    \A j, k \in 1..Len(g.nodes) :
        /\ j # k
        /\ g.nodes[j].type \in {"variable", "cell"}
        /\ g.nodes[k].type \in {"variable", "cell"}
        => g.nodes[j].id # g.nodes[k].id

SameVerificationsPerClaim(g, h) ==
    \A i \in 1..Len(claims) : VerificationsOf(g, ClaimId(i)) = VerificationsOf(h, ClaimId(i))

\* the node writes of all workers
NodeWrites ==
    UNION {{workers.writes[i][k].item :
               k \in {j \in 1..Len(workers.writes[i]) : workers.writes[i][j].kind = "node"}} :
           i \in 1..Len(workers.writes)}

\* every two workers that write a node of one id write the same node
WritersAgree == \A m, n \in NodeWrites : m.id = n.id => m = n

-----------------------------------------------------------------------------
(* Node ids *)

\* C16: in every state reached while building the graph no two nodes of the
\* node list have the same id, whatever their types, for any table ids,
\* variable names and labels.
C16_NodeIdsUnique ==
    \A j, k \in 1..Len(graph.nodes) : j # k => graph.nodes[j].id # graph.nodes[k].id

\* the variable and cell dedup checks do keep ids unique when a table carries
\* the id of a variable or cell node: the node is not added
C16_OnlyClaimNodesCollide ==
    \A j, k \in 1..Len(graph.nodes) :
        j < k /\ graph.nodes[j].id = graph.nodes[k].id
        => graph.nodes[j].type = "table" /\ graph.nodes[k].type = "claim"

-----------------------------------------------------------------------------
(* Append order *)

\* the 1-based position of the claim a claim id names
ClaimIndexOf(claim_id) == CHOOSE i \in 1..Len(claims) : ClaimId(i) = claim_id

\* the claim ids among the sources of the edges, in list order
ClaimEdges(g) ==
    SelectSeq(g.edges, LAMBDA e : \E i \in 1..Len(claims) : e.source = ClaimId(i))

\* the value literals of the mentions of claim i that are not skipped, in order
ProcessedValues(i) ==
    [k \in 1..Len(SelectSeq(claims[i].values_mentioned, LAMBDA m : ~Skipped(m))) |->
        SelectSeq(claims[i].values_mentioned, LAMBDA m : ~Skipped(m))[k].value]

\* the claim_value fields of a list of verification results
ClaimValues(vs) == [k \in 1..Len(vs) |-> vs[k].claim_value]

InClaimOrder ==
    /\ \A j, k \in 1..Len(graph.verifications) :
          j < k => ClaimIndexOf(graph.verifications[j].claim_id)
                   <= ClaimIndexOf(graph.verifications[k].claim_id)
    /\ \A j, k \in 1..Len(ClaimEdges(graph)) :
          j < k => ClaimIndexOf(ClaimEdges(graph)[j].source)
                   <= ClaimIndexOf(ClaimEdges(graph)[k].source)

InMentionOrder ==
    pc \in {"built", "done"} =>
        \A i \in 1..Len(claims) :
            claims[i].values_mentioned # <<>>
            => ClaimValues(VerificationsOf(graph, ClaimId(i))) = ProcessedValues(i)

\* every list of the graph keeps its entries, in place and unchanged
AppendOnly ==
    /\ Len(graph.nodes) <= Len(graph'.nodes)
    /\ SubSeq(graph'.nodes, 1, Len(graph.nodes)) = graph.nodes
    /\ Len(graph.edges) <= Len(graph'.edges)
    /\ SubSeq(graph'.edges, 1, Len(graph.edges)) = graph.edges
    /\ Len(graph.verifications) <= Len(graph'.verifications)
    /\ SubSeq(graph'.verifications, 1, Len(graph.verifications)) = graph.verifications

\* C17: verification results and edges are appended in claim-processing order
\* (claim indices non-decreasing along the verifications list and along the
\* edges that start at a claim), the results of one claim are in the order of
\* its value mentions, and no step removes, reorders or modifies an entry of
\* nodes, edges or verifications.
C17_AppendedInClaimOrder == [](InClaimOrder /\ InMentionOrder) /\ [][AppendOnly]_vars

\* a finished run in which an earlier claim has two results and a later claim one
C17_Witness ==
    /\ pc = "done"
    /\ Len(claims) = 2
    /\ Len(VerificationsOf(graph, ClaimId(1))) = 2
    /\ Len(VerificationsOf(graph, ClaimId(2))) = 1
    /\ graph.verifications[1].claim_value # graph.verifications[2].claim_value
    /\ Len(ClaimEdges(graph)) >= 3

-----------------------------------------------------------------------------
(* numbers_match *)

\* the parser's result for a literal is a number other than nan and +-inf
ParsesFinite(s) ==
    /\ normalize_number(s) # <<>>
    /\ normalize_number(s)[1] # NaN
    /\ Abs(normalize_number(s)[1]) # Infinity

\* C18: numbers_match(a, b) is false whenever a or b fails to parse (the
\* parser gives None), for every tolerance, also when a and b are the same
\* unparseable string or both are missing-data tokens.
C18_UnparseableNeverMatches ==
    pc = "match_returned" /\ (normalize_number(call.a) = <<>> \/ normalize_number(call.b) = <<>>)
        => ~ret.match

\* the same unparseable string on both sides, and two missing-data tokens
C18_Witness ==
    /\ pc = "match_returned"
    /\ ~ret.match
    /\ \/ call.a = <<"a","b","c">> /\ call.b = <<"a","b","c">>
       \/ call.a = <<"n",".","a",".">> /\ call.b = <<".",".",".">>

\* C19 (as stated): numbers_match(a, a) is true for every input string a.
C19_Reflexive ==
    pc = "match_returned" /\ call.a = call.b /\ call.tolerance = Tolerance => ret.match

\* C19 (amended): numbers_match(a, a) is true for every input string a that
\* parses to a finite number, and false for every other a (no number, nan, inf).
C19_ReflexiveOnFiniteNumbers ==
    pc = "match_returned" /\ call.a = call.b /\ call.tolerance = Tolerance
        => (ret.match <=> ParsesFinite(call.a))

\* a literal compared with itself: a parenthesized negative that matches
C19_Witness ==
    /\ pc = "match_returned"
    /\ call.a = <<"(","1",".","2",")">>
    /\ call.b = call.a
    /\ call.tolerance = Tolerance
    /\ ret.match

\* C20: numbers_match(a, b) equals numbers_match(b, a) for all input strings a
\* and b and every tolerance.
C20_Symmetric ==
    pc = "match_returned"
        => ret.match = numbers_match_within(call.b, call.a, call.tolerance)

\* two different numbers exactly the tolerance apart that match, the smaller first
C20_Witness ==
    /\ pc = "match_returned"
    /\ call.a = <<"3",".","0","0">>
    /\ call.b = <<"3",".","1","5">>
    /\ call.tolerance = Tolerance
    /\ ret.match

\* C21: for two parseable inputs, numbers_match(a, b) with the default
\* tolerance is true if and only if the absolute difference of the parsed
\* values is at most 0.15, whatever their magnitude, the boundary included.
C21_MatchIffWithinTolerance ==
    pc = "match_returned" /\ call.tolerance = Tolerance
    /\ ParsesFinite(call.a) /\ ParsesFinite(call.b)
        => (ret.match <=> WithinDecimalTolerance(call.a, call.b))

\* the two examples of the boundary: 3.00 matches 3.15 and does not match 3.16
C21_BoundaryExamples ==
    pc = "match_returned" /\ call.tolerance = Tolerance /\ call.a = <<"3",".","0","0">>
        => /\ call.b = <<"3",".","1","5">> => ret.match
           /\ call.b = <<"3",".","1","6">> => ~ret.match

-----------------------------------------------------------------------------
(* The number parser *)

\* the string with thousands separators, percent signs and whitespace removed
\* and a surrounding pair of parentheses turned into a leading minus sign
Cleaned(s) == Unparenthesized(Unformatted(Strip(s)))

\* an optional sign, then digits with at most one ".", at least one digit
IsNumericLiteral(t) ==
    /\ Cardinality({i \in 1..Len(Unsigned(t)) : IsDigit(Unsigned(t)[i])}) >= 1
    /\ Cardinality({i \in 1..Len(Unsigned(t)) : Unsigned(t)[i] = "."}) <= 1
    /\ \A i \in 1..Len(Unsigned(t)) : IsDigit(Unsigned(t)[i]) \/ Unsigned(t)[i] = "."

\* C22: the parser never raises: for every input string it returns a number or
\* None; it returns None for each missing-data token and for every string that,
\* cleaned of separators, percent signs, whitespace and parentheses, is not a
\* numeric literal.
C22_NoneUnlessNumeric ==
    pc = "parse_returned" =>
        /\ Len(ret.value) <= 1
        /\ Strip(call.s) \in MissingTokens => ret.value = <<>>
        /\ ~IsNumericLiteral(Cleaned(call.s)) => ret.value = <<>>

\* the strings that are no numeric literal and yet give a float are the
\* spellings of nan and infinity
C22_OnlyNanAndInf ==
    pc = "parse_returned" /\ ~IsNumericLiteral(Cleaned(call.s)) /\ ret.value # <<>>
        => /\ Lower(Unsigned(Cleaned(call.s))) \in {<<"n","a","n">>, <<"i","n","f">>, <<"i","n","f","i","n","i","t","y">>}
           /\ ret.value[1] \in {NaN, Infinity, 0 - Infinity}

\* every numeric literal gives a float
C22_NumericParses ==
    pc = "parse_returned" /\ IsNumericLiteral(Cleaned(call.s))
    /\ Strip(call.s) \notin MissingTokens
        => ret.value # <<>> /\ Abs(ret.value[1]) < Infinity

-----------------------------------------------------------------------------
(* Columns without a year *)

\* the label begins with four digits
LeadsWithYear(col) ==
    Len(col) >= 4 /\ \A i \in 1..4 : \E d \in 1..Len(Digits) : Digits[d] = col[i]

\* the column labels of the table of the call
CallColumns ==
    UNION {{call.table.data[i].cols[c].col : c \in 1..Len(call.table.data[i].cols)} :
              i \in 1..Len(call.table.data)}

\* the returned cell lies in a keyword-relevant row and its value matches the target
ReturnedByRelevantRow ==
    \E i \in 1..Len(call.table.data) :
        /\ call.table.data[i].label = ret.row
        /\ \E k \in 1..Len(variable_keywords(call.variable_hint)) :
              Contains(variable_keywords(call.variable_hint)[k], Lower(ret.row))
        /\ numbers_match(call.target_value, ret.value)

\* no keyword-relevant row holds a column whose value matches the target
NoRelevantMatch ==
    \A i \in 1..Len(call.table.data) :
        (\E k \in 1..Len(variable_keywords(call.variable_hint)) :
            Contains(variable_keywords(call.variable_hint)[k], Lower(call.table.data[i].label)))
        => \A c \in 1..Len(call.table.data[i].cols) :
              ~numbers_match(call.target_value, call.table.data[i].cols[c].val)

\* C23: a column whose label does not begin with four digits has no year and
\* is never returned by a year-scoped match (the year-specific step of pass 1,
\* the whole of pass 2), whatever year is requested; when it is returned, a
\* keyword-relevant row holds it and its value matches the target.  A label of
\* four digits and a qualifier has those four digits as its year.
C23_YearlessColumnsOnlyUnscoped ==
    pc = "returned" =>
        /\ \A col \in CallColumns :
              extract_year_from_col(col) = (IF LeadsWithYear(col) THEN Prefix(col, 4) ELSE NoneStr)
        /\ ret.found /\ ~LeadsWithYear(ret.col) => ReturnedByRelevantRow
        /\ ret.found /\ NoRelevantMatch => Prefix(ret.col, 4) = call.year

\* a year is requested and the any-column fallback of pass 1 returns the
\* Memorandum column of a keyword-relevant row
C23_Witness ==
    /\ pc = "returned"
    /\ call.year = <<"2","0","2","3">>
    /\ ret.found
    /\ ret.col = <<"M","e","m","o","r","a","n","d","u","m">>
    /\ ret.row = <<"O","u","t","p","u","t"," ","g","a","p">>

\* a year-scoped match returns a column with a qualifier after the year
C23_QualifiedColumnReturned ==
    /\ pc = "returned"
    /\ call.year = <<"2","0","2","3">>
    /\ ret.found
    /\ ret.col = <<"2","0","2","3","_","P","r","o","j",".">>

-----------------------------------------------------------------------------
(* Search order of the tables *)

\* the mentions of claim i that are not skipped, in order
ProcessedMentions(i) == SelectSeq(claims[i].values_mentioned, LAMBDA m : ~Skipped(m))

\* the likely table first when the hint names a loaded table, then every other
\* table in load order; all tables in load order otherwise
ExpectedOrder(likely_table) ==
    IF likely_table # <<"u","n","k","n","o","w","n">> /\ \E k \in 1..Len(tables) : tables[k].table_id = likely_table
    THEN SelectSeq(tables, LAMBDA t : t.table_id = likely_table)
         \o SelectSeq(tables, LAMBDA t : t.table_id # likely_table)
    ELSE tables

\* the cell CellResolver finds for a mention in a table
ResolvedIn(t, m) ==
    find_value_in_table(t, m.variable, IF m.year = <<"u","n","k","n","o","w","n">> THEN <<>> ELSE m.year, m.value)

\* the result v is the one of the first table of the order that holds a
\* resolvable cell: that table's id and that cell's raw value; UNVERIFIABLE
\* when no table holds one
FromFirstResolvable(v, m, order) ==
    /\ (\A k \in 1..Len(order) : ~ResolvedIn(order[k], m).found) => v.status = "UNVERIFIABLE"
    /\ \A k \in 1..Len(order) :
          /\ ResolvedIn(order[k], m).found
          /\ \A j \in 1..(k - 1) : ~ResolvedIn(order[j], m).found
          => /\ v.status # "UNVERIFIABLE"
             /\ v.table_id = order[k].table_id
             /\ v.table_value = ResolvedIn(order[k], m).value

\* C24: deterministic resolution searches the claim's likely table first when
\* the hint names a loaded table, then the other tables in load order, all
\* tables in load order when the hint is 'unknown' or names no loaded table,
\* and stops at the first table that holds a resolvable cell: the mention's
\* result carries that table's id and that cell's raw value.
C24_LikelyTableFirst ==
    pc \in {"built", "done"} =>
        \A i \in 1..Len(claims) :
            \A k \in 1..Len(ProcessedMentions(i)) :
                VerificationsOf(graph, ClaimId(i))[k].resolution_method = "deterministic"
                => FromFirstResolvable(VerificationsOf(graph, ClaimId(i))[k],
                                       ProcessedMentions(i)[k],
                                       ExpectedOrder(claims[i].likely_table))

\* the likely table is second in load order, the first table holds a resolvable
\* cell too, and the result carries the likely table's cell
C24_LikelyAfterAnotherResolvable ==
    /\ pc = "done"
    /\ Len(tables) = 2
    /\ \E i \in 1..Len(claims) :
          /\ claims[i].likely_table = tables[2].table_id
          /\ Len(ProcessedMentions(i)) >= 1
          /\ ResolvedIn(tables[1], ProcessedMentions(i)[1]).found
          /\ VerificationsOf(graph, ClaimId(i))[1].resolution_method = "deterministic"
          /\ VerificationsOf(graph, ClaimId(i))[1].table_id = tables[2].table_id

-----------------------------------------------------------------------------
(* Cell nodes and their cells *)

\* the cell nodes a verified_by edge to the cell (table_id, row, col) points to
CellNodesOf(table_id, row, col) ==
    {n \in NodeSet(graph) : n.type = "cell" /\ n.id = CellId(table_id, row, col)}

\* every cell node that stands for the cell describes that cell
DescribesCell(table_id, cell) ==
    \A n \in CellNodesOf(table_id, cell.row, cell.col) :
        /\ n.metadata.table_id = table_id
        /\ n.metadata.row = cell.row
        /\ n.metadata.col = cell.col

\* C25: two resolved cells with different (table id, row label, column label)
\* triples are represented by two different cell nodes: the cell node a
\* verified_by edge points to describes the table, row and column of the cell
\* that was resolved.
C25_CellNodeDescribesResolvedCell ==
    pc \in {"built", "done"} =>
        \A i \in 1..Len(claims) :
            \A k \in 1..Len(ProcessedMentions(i)) :
                /\ VerificationsOf(graph, ClaimId(i))[k].resolution_method = "deterministic"
                /\ VerificationsOf(graph, ClaimId(i))[k].status # "UNVERIFIABLE"
                => DescribesCell(
                       VerificationsOf(graph, ClaimId(i))[k].table_id,
                       ResolvedIn(TableById(tables, VerificationsOf(graph, ClaimId(i))[k].table_id),
                                  ProcessedMentions(i)[k]))

-----------------------------------------------------------------------------
(* C26 *)

DeterministicResults(g) ==
    SelectSeq(g.verifications, LAMBDA v : v.resolution_method = "deterministic")

DeterministicEdges(g) ==
    {g.edges[k] : k \in {j \in 1..Len(g.edges) :
                            /\ g.edges[j].type = "verified_by"
                            /\ "method" \notin DOMAIN g.edges[j].metadata}}

\* C26: a deterministic verification is MATCH, UNVERIFIABLE or QUALITATIVE,
\* never MISMATCH, and the verified_by edge of a deterministic resolution
\* carries status MATCH; in a run without the alternate resolver every
\* verification is deterministic, so no result is MISMATCH and every
\* verified_by edge is MATCH
C26_NoDeterministicMismatch ==
    /\ \A k \in 1..Len(DeterministicResults(graph)) :
           DeterministicResults(graph)[k].status \in {"MATCH", "UNVERIFIABLE", "QUALITATIVE"}
    /\ \A e \in DeterministicEdges(graph) : e.metadata.status = "MATCH"
    /\ ~use_llm =>
           /\ DeterministicResults(graph) = graph.verifications
           /\ \A k \in 1..Len(graph.edges) :
                  graph.edges[k].type = "verified_by" => graph.edges[k].metadata.status = "MATCH"

\* a finished run without the alternate resolver that matched a cell whose
\* text differs from the claimed value and left another mention unverifiable
C26_Witness ==
    /\ pc = "done"
    /\ ~use_llm
    /\ DeterministicEdges(graph) # {}
    /\ \E k \in 1..Len(graph.verifications) :
           /\ graph.verifications[k].status = "MATCH"
           /\ graph.verifications[k].table_value # graph.verifications[k].claim_value
    /\ \E k \in 1..Len(graph.verifications) : graph.verifications[k].status = "UNVERIFIABLE"

-----------------------------------------------------------------------------
(* C27 *)

EdgeSet(g) == {g.edges[k] : k \in 1..Len(g.edges)}

HasEdge(g, source, target, type) ==
    \E e \in EdgeSet(g) : e.source = source /\ e.target = target /\ e.type = type

\* v names a loaded table, and a cell node of that table has a verified_by
\* edge from v's claim and a contains_cell edge from the table
HasCellReference(g, tabs, v) ==
    /\ InTables(tabs, v.table_id)
    /\ \E n \in NodeSet(g) :
           /\ n.type = "cell"
           /\ n.metadata.table_id = v.table_id
           /\ HasEdge(g, v.claim_id, n.id, "verified_by")
           /\ HasEdge(g, v.table_id, n.id, "contains_cell")

ResultsWithStatus(g, statuses) ==
    SelectSeq(g.verifications, LAMBDA v : v.status \in statuses)

\* C27: every verification with status MATCH or MISMATCH, deterministic or
\* taken from the alternate resolver, names a loaded table and has a
\* verified_by edge to, and a contains_cell edge from that table to, a cell
\* node of that table
C27_MatchAndMismatchCarryCell ==
    \A k \in 1..Len(ResultsWithStatus(graph, {"MATCH", "MISMATCH"})) :
        HasCellReference(graph, tables, ResultsWithStatus(graph, {"MATCH", "MISMATCH"})[k])

\* the deterministic results with a status MATCH or MISMATCH carry a cell
\* reference, and so do the alternate resolver's whose table is loaded
C27_CellWhenTableLoaded ==
    \A k \in 1..Len(ResultsWithStatus(graph, {"MATCH", "MISMATCH"})) :
        \/ ResultsWithStatus(graph, {"MATCH", "MISMATCH"})[k].resolution_method = "llm"
            /\ ~InTables(tables, ResultsWithStatus(graph, {"MATCH", "MISMATCH"})[k].table_id)
        \/ HasCellReference(graph, tables, ResultsWithStatus(graph, {"MATCH", "MISMATCH"})[k])

-----------------------------------------------------------------------------
(* C28 *)

\* positions of the edges of a type that point to a node
EdgesTo(g, type, target) ==
    {k \in 1..Len(g.edges) : g.edges[k].type = type /\ g.edges[k].target = target}

CellNodes(g) == {n \in NodeSet(g) : n.type = "cell"}

\* C28: each cell node has exactly one contains_cell edge, from its table,
\* however many mentions were resolved to it
C28_OneContainsCellEdgePerCell ==
    \A n \in CellNodes(graph) :
        /\ Cardinality(EdgesTo(graph, "contains_cell", n.id)) = 1
        /\ \A k \in EdgesTo(graph, "contains_cell", n.id) :
               graph.edges[k].source = n.metadata.table_id

\* each resolution to a cell appends one contains_cell edge from the cell's
\* table and one verified_by edge: a cell node has as many of one as of the other
C28_OneContainsCellEdgePerResolution ==
    \A n \in CellNodes(graph) :
        /\ Cardinality(EdgesTo(graph, "contains_cell", n.id))
              = Cardinality(EdgesTo(graph, "verified_by", n.id))
        /\ EdgesTo(graph, "contains_cell", n.id) # {}
        /\ \A k \in EdgesTo(graph, "contains_cell", n.id) :
               graph.edges[k].source = n.metadata.table_id

-----------------------------------------------------------------------------
(* C29 *)

\* the alternate resolver answered NOT_FOUND wherever it answered at all
OnlyNotFound(resolutions) ==
    \A k \in 1..Len(resolutions) :
        \A j \in 1..Len(resolutions[k].matches) :
            resolutions[k].matches[j].match_status = "NOT_FOUND"

\* C29: a finished build whose alternate resolver returned no entry or only
\* NOT_FOUND entries has the graph of the build without the alternate
\* resolver on the same claims and tables: the same nodes, edges,
\* verifications and cross-table checks in the same order, every
\* verification deterministic
C29_NotFoundRunEqualsPlainRun ==
    pc \in {"built", "done"} /\ (use_llm => OnlyNotFound(llm_resolutions)) =>
        /\ graph = SequentialGraph(claims, tables, <<>>)
        /\ DeterministicResults(graph) = graph.verifications

\* a finished run with the alternate resolver in which a batch failed, every
\* entry is NOT_FOUND, and a mention was resolved to a cell
C29_Witness ==
    /\ pc = "done"
    /\ use_llm
    /\ llm_resolutions # <<>>
    /\ OnlyNotFound(llm_resolutions)
    /\ \E k \in 1..Len(batch_log) : batch_log[k].failed
    /\ DeterministicEdges(graph) # {}

\* a finished run whose alternate resolver returned no entry for claims with
\* mentions, one of them resolved to a cell
C29_NoEntryAtAll ==
    /\ pc = "done"
    /\ use_llm
    /\ llm_resolutions = <<>>
    /\ batch_log # <<>>
    /\ DeterministicEdges(graph) # {}

-----------------------------------------------------------------------------
(* C30 *)

\* the mention's value is the empty string or the string "unknown"
EmptyOrUnknown(m) == m.value \in {<<>>, <<"u","n","k","n","o","w","n">>}

\* claims with a non-empty mention list whose values are all empty or "unknown"
AllSkippedClaims ==
    {i \in 1..Len(claims) :
        /\ claims[i].values_mentioned # <<>>
        /\ \A k \in 1..Len(claims[i].values_mentioned) :
               EmptyOrUnknown(claims[i].values_mentioned[k])}

\* the value-loop iteration of a mention whose value is empty or "unknown"
\* leaves the graph as it was
SkippedStepLeavesGraph ==
    pc = "value" /\ EmptyOrUnknown(CurMention) => graph' = graph

\* such a mention gives the same graph whatever the alternate resolver
\* answered for its claim and whatever the tables hold
SkipIgnoresResolvers ==
    pc = "value" /\ EmptyOrUnknown(CurMention) =>
        \A kind \in ReplyKinds \ {"none", "omit"} :
            process_value(graph, ClaimId(ci), CurMention,
                          <<[claim_id |-> ClaimId(ci),
                             matches |-> ReplyMatches(kind, claims[ci].values_mentioned)]>>,
                          claims[ci].likely_table, tables) = graph

NoResultsForAllSkipped ==
    \A i \in AllSkippedClaims : VerificationsOf(graph, ClaimId(i)) = <<>>

\* C30: a mention whose value is empty or "unknown" is skipped: its iteration
\* adds no verification, node or edge, whatever the alternate resolver
\* answered and whatever the tables hold; a claim whose mentions are all of
\* this kind has no verification at all, not even QUALITATIVE
C30_SkippedMentionLeavesGraph ==
    [](NoResultsForAllSkipped /\ SkipIgnoresResolvers) /\ [][SkippedStepLeavesGraph]_vars

\* a finished run in which the alternate resolver answered MATCH for the
\* "unknown" value of a claim whose mentions were all skipped, beside a claim
\* with results
C30_Witness ==
    /\ pc = "done"
    /\ \E i \in AllSkippedClaims :
           /\ LlmGet(llm_resolutions, ClaimId(i)) # <<>>
           /\ \E j \in 1..Len(LlmGet(llm_resolutions, ClaimId(i))[1].matches) :
                  /\ LlmGet(llm_resolutions, ClaimId(i))[1].matches[j].match_status = "MATCH"
                  /\ LlmGet(llm_resolutions, ClaimId(i))[1].matches[j].claim_value = <<"u","n","k","n","o","w","n">>
           /\ VerificationsOf(graph, ClaimId(i)) = <<>>
    /\ graph.verifications # <<>>

====
